---- MODULE Spec2Model ----
(***************************************************************************)
(* State-machine model of the persistence core of XDesigner.               *)
(*                                                                         *)
(* Part 1: database/connection.py, class DatabaseConnection: the manager   *)
(* of one pyodbc connection (initialize, get_cursor, transaction, close),  *)
(* run by one or several callers against a driver and a store that may     *)
(* drop a link or become unreachable at any moment.                        *)
(***************************************************************************)
EXTENDS Naturals, Integers, Sequences, FiniteSets, TLC

\* ------------------------------------------------------------------ bounds
\* Callers sharing the DatabaseConnection in the concurrent specification.
MaxCallers == 2

\* --------------------------------------------------------- program constants
\* connection.py:40 and :41
max_retries == 3
retry_delay == 2
\* self.connection = None (connection.py:16, :167)
None == 0

\* Connection objects alive at once: the manager references one and each
\* caller's cursor one; an object nothing references is deallocated, so one
\* more is always there for pyodbc.connect to return.
ConnIds == 1..(MaxCallers + 2)
Callers == 1..MaxCallers

\* --------------------------------------------------------- driver messages
\* The messages of pyodbc.Error values, as sequences of characters, so that
\* the classification of connection.py:91-100 is a real substring search.
\* connection.py:93-99, in the order of the list.
connection_errors ==
    << <<"C","o","n","n","e","c","t","i","o","n"," ","i","s"," ","c","l",
         "o","s","e","d">>,
       <<"C","o","n","n","e","c","t","i","o","n"," ","r","e","s","e","t">>,
       <<"C","o","n","n","e","c","t","i","o","n"," ","t","i","m","e","o",
         "u","t">>,
       <<"C","o","n","n","e","c","t","i","o","n"," ","l","o","s","t">>,
       <<"C","o","m","m","u","n","i","c","a","t","i","o","n"," ","l","i",
         "n","k"," ","f","a","i","l","u","r","e">> >>

\* str(error) of the driver errors the model raises.
DriverText(m) ==
    CASE m = "LinkFailure" ->
           <<"0","8","S","0","1"," ","C","o","m","m","u","n","i","c","a","t",
             "i","o","n"," ","l","i","n","k"," ","f","a","i","l","u","r","e">>
      [] m = "ResetByPeer" ->
           <<"0","8","S","0","1"," ","c","o","n","n","e","c","t","i","o","n",
             " ","r","e","s","e","t"," ","b","y"," ","p","e","e","r">>
      [] m = "ConnTimeout" ->
           <<"H","Y","T","0","1"," ","C","o","n","n","e","c","t","i","o","n",
             " ","t","i","m","e","o","u","t"," ","e","x","p","i","r","e","d">>
      [] m = "InvalidObject" ->
           <<"4","2","S","0","2"," ","I","n","v","a","l","i","d"," ","o","b",
             "j","e","c","t"," ","n","a","m","e">>
      [] m = "ClosedConnection" ->
           <<"A","t","t","e","m","p","t"," ","t","o"," ","u","s","e"," ","a",
             " ","c","l","o","s","e","d"," ","c","o","n","n","e","c","t","i",
             "o","n",".">>
      [] m = "CursorConnClosed" ->
           <<"T","h","e"," ","c","u","r","s","o","r"," ","c","o","n","n","e",
             "c","t","i","o","n"," ","h","a","s"," ","b","e","e","n"," ","c",
             "l","o","s","e","d",".">>
      [] m = "NoTransaction" ->
           <<"2","5","0","0","0"," ","n","o"," ","c","o","r","r","e","s","p",
             "o","n","d","i","n","g"," ","B","E","G","I","N"," ","T","R","A",
             "N","S","A","C","T","I","O","N">>
      [] m = "LoginTimeout" ->
           <<"H","Y","T","0","0"," ","L","o","g","i","n"," ","t","i","m","e",
             "o","u","t"," ","e","x","p","i","r","e","d">>

DriverMessages ==
    { "LinkFailure", "ResetByPeer", "ConnTimeout", "InvalidObject",
      "ClosedConnection", "CursorConnClosed", "NoTransaction",
      "LoginTimeout" }

\* err in str(error)  (Python substring test on str)
Contains(text, pat) ==
    \E i \in 1..(Len(text) + 1) :
        /\ i + Len(pat) - 1 <= Len(text)
        /\ SubSeq(text, i, i + Len(pat) - 1) = pat

\* A classifier that lost the last entry of the list.
is_connection_error_short(m) ==
    \E k \in 1..(Len(connection_errors) - 1) :
        Contains(DriverText(m), connection_errors[k])

\* connection.py:91-100, _is_connection_error
is_connection_error(m) ==
    \E k \in 1..Len(connection_errors) :
        Contains(DriverText(m), connection_errors[k])

\* =========================================================================
\* Part 2: core/models.py (Field, Template), database/repository.py
\* (TemplateRepository) and database/service.py (TemplateService) over the
\* store's two tables.
\* =========================================================================

\* ------------------------------------------------------------------ bounds
\* Identity values the store can issue for Tbl_Template and for Tbl_Fields.
MaxTemplates == 2
MaxFields == 2

\* --------------------------------------------------------- program constants
\* models.py:108, Field._dpi
DefaultDpi == 300
\* service.py:266: min_size_inches = 20 / field._dpi
MinFieldPx == 20
\* service.py:544: if len(new_name) > 100
MaxNameLen == 100

TemplateIds == 1..MaxTemplates
FieldIds == 1..MaxFields

\* ------------------------------------------------------------------ strings
\* Names are sequences of characters, so that strip(), upper(), isupper()
\* and the LIKE of search_templates are computed and not assumed.
Lower == {"q"}

UpperChar(ch) == IF ch = "q" THEN "Q" ELSE ch

\* str.upper()
Upper(s) == [i \in 1..Len(s) |-> UpperChar(s[i])]

RECURSIVE LStrip(_)
LStrip(s) == IF s # <<>> /\ Head(s) = " " THEN LStrip(Tail(s)) ELSE s

RECURSIVE RStrip(_)
RStrip(s) ==
    IF s # <<>> /\ s[Len(s)] = " "
    THEN RStrip(SubSeq(s, 1, Len(s) - 1))
    ELSE s

\* str.strip()
Strip(s) == RStrip(LStrip(s))

\* str.isupper(): some cased character, and no lowercase one.
IsUpper(s) ==
    /\ \E i \in 1..Len(s) : s[i] \in {"A", "Q"}
    /\ \A i \in 1..Len(s) : s[i] \notin Lower

\* The position of the first "]" of pattern pat after position 1, or 0.
ClosingBracket(pat) ==
    LET js == {j \in 2..Len(pat) : pat[j] = "]"}
    IN IF js = {} THEN 0 ELSE CHOOSE j \in js : \A k \in js : j <= k

\* txt LIKE pat in the store: % is any run of characters, _ any one
\* character, [...] one character of the set within the brackets; letters
\* compare without case (the store's default collation).
RECURSIVE Like(_, _)
Like(pat, txt) ==
    IF pat = <<>> THEN txt = <<>>
    ELSE IF Head(pat) = "%"
    THEN Like(Tail(pat), txt) \/ (txt # <<>> /\ Like(pat, Tail(txt)))
    ELSE IF txt = <<>> THEN FALSE
    ELSE IF Head(pat) = "_" THEN Like(Tail(pat), Tail(txt))
    ELSE IF Head(pat) = "[" /\ ClosingBracket(pat) # 0
    THEN LET j == ClosingBracket(pat)
         IN /\ \E k \in 2..(j - 1) : UpperChar(pat[k]) = UpperChar(Head(txt))
            /\ Like(SubSeq(pat, j + 1, Len(pat)), Tail(txt))
    ELSE /\ UpperChar(Head(pat)) = UpperChar(Head(txt))
         /\ Like(Tail(pat), Tail(txt))

\* ----------------------------------------------------------------- entities
\* constants.py:5-10, RegionType
RegionType == {"OMR", "ICR", "BARCODE", "XMARK"}

\* A Field (models.py:98-107).  Coordinates are in units of 1/DefaultDpi
\* inch, which the values used here represent exactly.
MkField(id, tid, name, type, x, y, w, h, page, rect) ==
    [ID |-> id, ID_Template |-> tid, Nombre_Campo |-> name,
     Tipo_Campo |-> type, Cord_x |-> x, Cord_y |-> y, Cord_width |-> w,
     Cord_height |-> h, NroPagina |-> page, IdRectangulo |-> rect]

\* A Template (models.py:15-19).
MkTemplate(id, name, xmp, image, grade) ==
    [ID |-> id, Nombre |-> name, Xmp |-> xmp, Imagen |-> image,
     ID_Grado |-> grade]

\* An intersection test that looks for b to the right of a and below it
\* only.
intersects_after(a, b) ==
    IF a.NroPagina # b.NroPagina THEN FALSE
    ELSE ~ ( \/ a.Cord_x + a.Cord_width < b.Cord_x
             \/ a.Cord_y + a.Cord_height < b.Cord_y )

\* models.py:140-150, Field.intersects
intersects(a, b) ==
    IF a.NroPagina # b.NroPagina THEN FALSE
    ELSE ~ ( \/ a.Cord_x + a.Cord_width < b.Cord_x
             \/ b.Cord_x + b.Cord_width < a.Cord_x
             \/ a.Cord_y + a.Cord_height < b.Cord_y
             \/ b.Cord_y + b.Cord_height < a.Cord_y )

\* models.py:114-138, Field.validate: "" or the ValidationError raised.
field_validate(f) ==
    IF f.Nombre_Campo = <<>> THEN "name required"
    ELSE IF ~IsUpper(f.Nombre_Campo) THEN "name not uppercase"
    ELSE IF f.Tipo_Campo \notin RegionType THEN "invalid type"
    ELSE IF \E v \in {f.Cord_x, f.Cord_y, f.Cord_width, f.Cord_height} : v < 0
         THEN "negative coordinates"
    ELSE IF f.Cord_width <= 0 \/ f.Cord_height <= 0 THEN "empty dimensions"
    ELSE IF f.NroPagina < 0 THEN "negative page"
    ELSE IF f.ID_Template <= 0 THEN "invalid template id"
    ELSE ""

\* models.py:69-76, Template.validate: "" or the ValidationError raised.
template_validate(t) ==
    IF t.Nombre = <<>> THEN "name required"
    ELSE IF t.Imagen = "" THEN "image required"
    ELSE IF t.ID_Grado <= 0 THEN "invalid grade"
    ELSE ""

\* ---------------------------------------------------------- service results
\* What a Service operation gives its caller: a value (an id, or 1/0 for
\* True/False), a list of rows, or an exception with the field it names.
SvcPending ==
    [kind |-> "pending", text |-> "", value |-> 0, rows |-> <<>>,
     name |-> <<>>]

SvcReturn(v) == [SvcPending EXCEPT !.kind = "return", !.value = v]

SvcRows(rs) == [SvcPending EXCEPT !.kind = "return", !.rows = rs]

\* exceptions.py:22-34; raise ValidationError(text), naming field `name`
ValidationError(text, name) ==
    [SvcPending EXCEPT !.kind = "ValidationError", !.text = text,
                       !.name = name]

\* exceptions.py:12-20; raise DatabaseError(...) from e
SvcDatabaseError ==
    [SvcPending EXCEPT !.kind = "DatabaseError"]

\* ------------------------------------------------------------------ state
VARIABLES
    Tbl_Template, \* store: the template rows the session sees, by ID
    Tbl_Fields,   \* store: the field rows the session sees, by ID
    undo,         \* store: the tables as of the open transaction's BEGIN
    trancount,    \* store: transactions the session has open
    identity,     \* store: the last identity value issued for each table
    spc,          \* each caller's position in its Service operation
    call,         \* each caller's Service operation and its arguments
    todo,         \* the statements the caller's repository call has left
    retval,       \* what the caller's repository call is to return:
                  \*   fetchval(), or 1/0 for rowcount > 0
    sres,         \* what the last Service operation gave its caller
    pre,          \* the committed tables when that operation began
    deleted,      \* the templates a successful delete_template removed
    began,        \* whether that operation reached the store's BEGIN
    cache,        \* Cache._cache: key -> (value, timestamp)
    clock,        \* datetime.now(), in seconds
    got,          \* the last Cache.get: its key and what it returned
    sets,         \* each key's last Cache.set not deleted or cleared since
    backing,      \* what the methods wrapped by the cache decorators read
                  \*   and write: each argument's value in the store
    task,         \* each caller's call of a wrapped method or of the
                  \*   cache: its position, its locals and what it gave
    workload,     \* what the Service's callers work on in this run
    probe         \* the Field objects a pure method is applied to, and what it
                  \* gave: intersects() on a pair, or to_pixels()/from_pixels()

storeVars == <<Tbl_Template, Tbl_Fields, undo, trancount, identity>>
svcVars == <<spc, call, todo, retval, sres, pre, deleted, began>>
memoVars == <<backing, task>>
cacheVars == <<cache, clock, got, sets, memoVars>>

\* The session's tables.
Tables == [t |-> Tbl_Template, f |-> Tbl_Fields]

\* What is committed: what any other session, and any later one, sees.
Committed == IF trancount > 0 THEN undo ELSE Tables

EmptyTables == [t |-> <<>>, f |-> <<>>]

NoTemplate == MkTemplate(0, <<>>, "", "", 0)
NoField == MkField(0, 0, <<>>, "", 0, 0, 0, 0, 0, 0)

\* No operation: the shape of `call`.
NoCall ==
    [op |-> "none", tid |-> 0, fid |-> 0, name |-> <<>>, type |-> "",
     a |-> 0, b |-> 0, template |-> NoTemplate, field |-> NoField]

\* Two Field objects a and b on which intersects() has not been called.
Probe(a, b) == [a |-> a, b |-> b, called |-> FALSE, ab |-> FALSE, ba |-> FALSE]

NoProbe == Probe(NoField, NoField)

\* The keys the callers of the cache use.
CacheKeys == {"k1", "k2"}

\* No call of a wrapped method or of the cache: the shape of `task`.  prev
\* is the caller's call before this one, if that was a call of the method
\* wrapped by cache_decorator.
NoPrev == [key |-> "", result |-> None, invoked |-> 0, ended |-> 0]
NoTask ==
    [op |-> "none", at |-> "idle", key |-> "", value |-> None, stamp |-> 0,
     result |-> None, raised |-> "", invoked |-> 0, ended |-> 0,
     prev |-> NoPrev]

\* No Cache.get has been made.
NoGet == [called |-> FALSE, key |-> "", value |-> None]

\* The largest of the numbers ids, 0 when there is none.
MaxOf(ids) == IF ids = {} THEN 0 ELSE CHOOSE i \in ids : \A j \in ids : j <= i

\* No transaction is open, no operation is running and the cache is empty.
InitSession ==
    /\ undo = EmptyTables
    /\ trancount = 0
    /\ spc = [p \in Callers |-> "idle"]
    /\ call = [p \in Callers |-> NoCall]
    /\ todo = [p \in Callers |-> <<>>]
    /\ retval = [p \in Callers |-> 0]
    /\ sres = [p \in Callers |-> SvcPending]
    /\ pre = [p \in Callers |-> EmptyTables]
    /\ deleted = {}
    /\ began = [p \in Callers |-> FALSE]
    /\ cache = <<>>
    /\ clock = 0
    /\ got = NoGet
    /\ sets = <<>>
    /\ backing = [k \in CacheKeys |-> None]
    /\ task = [p \in Callers |-> NoTask]

\* service.py:19-23, __init__, and cache.py:9-12: an empty store, no
\* operation running, an empty cache.
InitData ==
    /\ Tbl_Template = <<>>
    /\ Tbl_Fields = <<>>
    /\ identity = [t |-> 0, f |-> 0]
    /\ InitSession

\* ------------------------------------------------------------- exceptions
\* An exception value: its class, its message, and the exception it was
\* raised "from" (the message name of a driver error, else the class).
NoExc == [type |-> "None", msg |-> "", cause |-> ""]
Returned == [type |-> "return", msg |-> "", cause |-> ""]
Pending == [type |-> "pending", msg |-> "", cause |-> ""]

\* pyodbc.Error with str(error) = DriverText(m)
DriverError(m) == [type |-> "pyodbc.Error", msg |-> m, cause |-> ""]

\* A non-driver exception (ValueError raised by a body, AttributeError).
OtherError(t) == [type |-> t, msg |-> "", cause |-> ""]

ExcName(e) == IF e.type = "pyodbc.Error" THEN e.msg ELSE e.type

\* core/exceptions.py:12-20; raise DatabaseError(text) from e
DatabaseError(text, e) ==
    [type |-> "DatabaseError", msg |-> text, cause |-> ExcName(e)]

\* The four messages of connection.py:58, :75, :76 and :89.
ConnectFailed == "Error en la conexion a la base de datos"
RetryAgain == "Error de conexion - intente nuevamente"
QueryFailed == "Error de base de datos"
TransactionFailed == "Error en transaccion"

\* ------------------------------------------------------------------ state
VARIABLES
    connection,   \* self.connection: a connection object, or None
    conns,        \* driver and store: each connection object's state
                  \*   ("free", "open", "closed"), whether the link behind
                  \*   it is up, and the session's open transactions
    storeUp,      \* store: whether pyodbc.connect can reach it
    callers,      \* the callers that use the manager
    tracing,      \* whether results and history are recorded
    pc,           \* each caller's position in the manager's code
    op,           \* each caller's running public operation
    ret,          \* where initialize() returns to
    attempt,      \* loop variable of initialize()
    tries,        \* loop variable of execute_query()
    cursor,       \* the cursor of the caller's scope: its connection, open?
    exc,          \* the exception in flight in the caller
    result,       \* what the last operation gave its caller
    hist          \* history of the caller's current or last operation

callVars == <<pc, op, ret, attempt, tries, cursor, exc, result, hist>>
\* What no operation of the connection manager changes: who calls it, and
\* the tables and the Service above it.
setup ==
    <<callers, tracing, workload, probe, storeVars, svcVars, cacheVars>>
vars == <<connection, conns, storeUp, callers, tracing,
          pc, op, ret, attempt, tries, cursor, exc, result, hist,
          workload, probe, storeVars, svcVars, cacheVars>>

NoCursor == [conn |-> None, open |-> FALSE]

\* No connection object: the slot is free for pyodbc.connect to fill.
FreeConn == [state |-> "free", alive |-> FALSE, tran |-> 0]

\* A connection object after a successful pyodbc.connect (autocommit).
OpenConn == [state |-> "open", alive |-> TRUE, tran |-> 0]

\* A connection object after close(): handle released, session gone.
ClosedConn == [state |-> "closed", alive |-> FALSE, tran |-> 0]

FreshHist ==
    [ op |-> "none",         \* the public operation
      log |-> <<>>,          \* BEGIN/COMMIT/ROLLBACK issued, with outcome
      bodyExc |-> NoExc,     \* the exception the with-body raised
      connects |-> 0,        \* pyodbc.connect calls of this initialize()
      sleeps |-> 0,          \* time.sleep calls of this initialize()
      slept |-> 0,           \* seconds slept by this initialize()
      inits |-> {},          \* call sites that called initialize()
      yielded |-> FALSE,     \* whether a cursor was handed to the body
      scopeConn |-> None,    \* the connection that cursor was created on
      closes |-> 0,          \* cursor.close() calls on the scope's cursor
      cursorOn |-> "none",   \* state of self.connection when cursor() ran
      entryConn |-> None,    \* self.connection when the operation began
      entryLive |-> FALSE,   \* whether that was an open connection
      dropped |-> FALSE,     \* an open connection was replaced unclosed
      closeRaised |-> FALSE, \* whether the driver's close raised
      caught |-> <<>>,       \* the errors execute_query() caught and retried
      rowcounts |-> <<>>,    \* cursor.rowcount of each statement executed
      returned |-> None      \* the value of execute_query()'s return
    ]

\* connection.py:13-17, __init__: no connection yet.  The store starts
\* reachable; no connection object exists.
InitManager ==
    /\ connection = None
    /\ conns = [c \in ConnIds |-> FreeConn]
    /\ storeUp = TRUE
    /\ pc = [p \in Callers |-> "idle"]
    /\ op = [p \in Callers |-> "none"]
    /\ ret = [p \in Callers |-> "caller"]
    /\ attempt = [p \in Callers |-> 0]
    /\ tries = [p \in Callers |-> 0]
    /\ cursor = [p \in Callers |-> NoCursor]
    /\ exc = [p \in Callers |-> NoExc]
    /\ result = [p \in Callers |-> Pending]
    /\ hist = [p \in Callers |-> FreshHist]

\* The connection manager, the Service and the cache after construction.
InitCommon == InitManager /\ InitData

\* One caller: the operations run one at a time; results and history of
\* each are recorded.
Init ==
    /\ InitCommon /\ callers = {1} /\ tracing = TRUE
    /\ workload = "none" /\ probe = NoProbe

\* Several callers share the DatabaseConnection; neither results nor
\* history are recorded.
InitConc ==
    /\ InitCommon /\ callers = Callers /\ tracing = FALSE
    /\ workload = "none" /\ probe = NoProbe

\* The history after a step: h when it is recorded, else left as it is.
Traced(h) == IF tracing THEN h ELSE hist

\* The results after a step, likewise.
Observed(r) == IF tracing THEN r ELSE result

\* The history of an operation o that begins.
HistBegin(o) ==
    [FreshHist EXCEPT
        !.op = o,
        !.entryConn = connection,
        !.entryLive = connection # None /\ conns[connection].state = "open"]

\* ----------------------------------------------------------------- driver
\* A connection object is kept alive by the manager's attribute and by the
\* cursors created on it.
Referenced(c) == c = connection \/ \E p \in Callers : cursor[p].conn = c

\* The connection objects after a step that leaves them as cs: an object
\* nothing references any more is deallocated (which releases its handle).
Settle(cs) ==
    conns' = [c \in ConnIds |-> IF Referenced(c)' THEN cs[c] ELSE FreeConn]

FreeIds == {c \in ConnIds : conns[c].state = "free"}

NewConn == CHOOSE c \in FreeIds : \A d \in FreeIds : c <= d

\* What connection.cursor() can do on connection object c.
CursorOutcomes(c) ==
    IF conns[c].state # "open" THEN {"ClosedConnection"}
    ELSE IF conns[c].alive THEN {"ok"}
    ELSE {"ok", "LinkFailure"}

\* What cursor.execute(stmt) can do on connection object c: "ok" or the
\* driver error raised.  A statement on a dropped link fails with one of the
\* driver's link messages; COMMIT and ROLLBACK need an open transaction; a
\* statement of a with-body can fail or time out on a live link.
ExecOutcomes(c, stmt) ==
    IF conns[c].state # "open" THEN {"ClosedConnection"}
    ELSE IF ~conns[c].alive THEN {"LinkFailure", "ResetByPeer"}
    ELSE IF stmt = "BEGIN" THEN {"ok"}
    ELSE IF stmt \in {"COMMIT", "ROLLBACK"}
         THEN (IF conns[c].tran > 0 THEN {"ok"} ELSE {"NoTransaction"})
    ELSE {"ok", "InvalidObject", "ConnTimeout"}

\* The store's transaction count after a successful statement.
TranAfter(c, stmt) ==
    IF stmt = "BEGIN" THEN conns[c].tran + 1
    ELSE IF stmt = "COMMIT" THEN conns[c].tran - 1
    ELSE IF stmt = "ROLLBACK" THEN 0
    ELSE conns[c].tran

\* ---------------------------------------------------------------- returns
\* connection.py:104, max_retries of execute_query()
query_retries == 3

\* execute_query() that retries whatever the cause of the error.
RetriesQueryAnyCause(t, r) ==
    r.type = "DatabaseError" /\ t < query_retries - 1

\* connection.py:110-113: except DatabaseError as e: retry if attempt <
\* max_retries - 1 and self._is_connection_error(e.__cause__), else raise.
RetriesQuery(t, r) ==
    /\ r.type = "DatabaseError"
    /\ t < query_retries - 1
    /\ is_connection_error(r.cause)

\* The scope of p's operation is left: r is what comes out of it (Returned,
\* or the exception raised) and cur the state of its cursor.  A closed
\* cursor is garbage once the scope is left.  The operation ends and r is
\* what its caller gets, unless the handler of execute_query() catches r and
\* goes on to its next attempt.
Finish(p, r, cur) ==
    /\ cursor' = [cursor EXCEPT ![p] = IF cur.open THEN cur ELSE NoCursor]
    /\ ret' = [ret EXCEPT ![p] = "caller"]
    /\ attempt' = [attempt EXCEPT ![p] = 0]
    /\ IF op[p] = "execute_query" /\ RetriesQuery(tries[p], r)
       THEN /\ pc' = [pc EXCEPT ![p] = "eq_sleep"]
            /\ exc' = [exc EXCEPT ![p] = r]
            /\ UNCHANGED <<op, tries, result>>
       ELSE /\ pc' = [pc EXCEPT ![p] = "idle"]
            /\ op' = [op EXCEPT ![p] = "none"]
            /\ tries' = [tries EXCEPT ![p] = 0]
            /\ exc' = [exc EXCEPT ![p] = NoExc]
            /\ result' = Observed([result EXCEPT ![p] = r])

\* ------------------------------------------------------------------ close
\* The driver's close raises when the link behind the handle is gone.
DriverCloseRaises ==
    /\ connection # None
    /\ conns[connection].state = "open"
    /\ ~conns[connection].alive

\* connection.py:167 without the assignment: the handle is kept.
ConnectionAfterCloseKept == connection

\* connection.py:166-167, finally: self.connection = None
ConnectionAfterClose == None

\* connection.py:160-165: the connection objects after close(): the handle
\* of an open connection is released, also when the driver's close raises.
ClosedConns ==
    IF connection # None /\ conns[connection].state = "open"
    THEN [conns EXCEPT ![connection] = ClosedConn]
    ELSE conns

\* connection.py:160, :166-167: self.connection after close().
close_connection ==
    IF connection # None THEN ConnectionAfterClose ELSE connection

\* connection.py:164-165: except Exception: log, nothing is raised.
CloseResult(raised) == Returned

\* connection.py:158-168, close() called by p.
close(p) ==
    /\ p \in callers
    /\ pc[p] = "idle"
    /\ connection' = close_connection
    /\ Finish(p, CloseResult(DriverCloseRaises), cursor[p])
    /\ Settle(ClosedConns)
    /\ hist' = Traced([hist EXCEPT ![p] =
                  [HistBegin("close") EXCEPT
                      !.closeRaised = DriverCloseRaises]])
    /\ UNCHANGED <<storeUp, setup>>

\* ------------------------------------------------------------- initialize
\* Entering initialize() from call site `site`: the loop starts at attempt 0.
EnterInitialize(p, site) ==
    /\ pc' = [pc EXCEPT ![p] = "init_check"]
    /\ ret' = [ret EXCEPT ![p] = site]
    /\ attempt' = [attempt EXCEPT ![p] = 0]
    /\ UNCHANGED tries

InitCounters(h, site) ==
    [h EXCEPT !.inits = @ \cup {site},
              !.connects = 0, !.sleeps = 0, !.slept = 0]

\* initialize() that never closes the connection it replaces.
ShouldCloseNever == FALSE

\* connection.py:45: if self.connection and not self.connection.closed
ShouldCloseFirst == connection # None /\ conns[connection].state = "open"

\* The retry test off by one: it sleeps after the last attempt too.
RetriesLeftOffByOne(a) == a < max_retries

\* connection.py:53: if attempt < max_retries - 1
RetriesLeft(a) == a < max_retries - 1

\* initialize() returns normally to its call site: to the caller
\* (connection.py:50), to get_cursor() at :67, or to the handler of
\* get_cursor() at :75, which raises the retry error from the driver error.
InitReturn(p) ==
    IF ret[p] = "lazy"
    THEN /\ pc' = [pc EXCEPT ![p] = "gc_cursor"]
         /\ UNCHANGED <<op, ret, attempt, tries, exc, result, cursor>>
    ELSE Finish(p, IF ret[p] = "reconnect"
                   THEN DatabaseError(RetryAgain, exc[p])
                   ELSE Returned,
                cursor[p])

\* initialize() called by p as a public operation.
initialize(p) ==
    /\ p \in callers
    /\ pc[p] = "idle"
    /\ EnterInitialize(p, "caller")
    /\ op' = [op EXCEPT ![p] = "initialize"]
    /\ result' = Observed([result EXCEPT ![p] = Pending])
    /\ hist' = Traced([hist EXCEPT ![p] =
                         InitCounters(HistBegin("initialize"), "caller")])
    /\ UNCHANGED <<connection, conns, storeUp, setup, cursor, exc>>

\* connection.py:45-46: close an open connection before connecting.
InitCheck(p) ==
    /\ p \in callers
    /\ pc[p] = "init_check"
    /\ pc' = [pc EXCEPT ![p] = "init_connect"]
    /\ UNCHANGED <<storeUp, setup, op, ret, attempt, tries, cursor, exc, result,
                   hist>>
    /\ IF ShouldCloseFirst
       THEN /\ connection' = close_connection
            /\ Settle(ClosedConns)
       ELSE UNCHANGED <<connection, conns>>

\* connection.py:48-58: pyodbc.connect succeeds and initialize() returns,
\* or fails; a failure sleeps if retries are left, else raises.
InitConnect(p) ==
    /\ p \in callers
    /\ pc[p] = "init_connect"
    /\ FreeIds # {}
    /\ hist' = Traced([hist EXCEPT
            ![p].connects = @ + 1,
            ![p].dropped = @ \/ ( /\ storeUp
                                  /\ connection # None
                                  /\ conns[connection].state = "open" )])
    /\ IF storeUp
       THEN /\ connection' = NewConn
            /\ InitReturn(p)
            /\ Settle([conns EXCEPT ![NewConn] = OpenConn])
       ELSE /\ IF RetriesLeft(attempt[p])
               THEN /\ pc' = [pc EXCEPT ![p] = "init_sleep"]
                    /\ UNCHANGED <<op, ret, attempt, tries, exc, result,
                                   cursor>>
               ELSE Finish(p, DatabaseError(ConnectFailed,
                                            DriverError("LoginTimeout")),
                           cursor[p])
            /\ connection' = connection
            /\ Settle(conns)
    /\ UNCHANGED <<storeUp, setup>>

\* connection.py:55 and :43: time.sleep(retry_delay), then the next
\* iteration of the loop; the function returns if the range is exhausted.
InitSleep(p) ==
    /\ p \in callers
    /\ pc[p] = "init_sleep"
    /\ hist' = Traced([hist EXCEPT ![p].sleeps = @ + 1,
                                   ![p].slept = @ + retry_delay])
    /\ IF attempt[p] + 1 < max_retries
       THEN /\ pc' = [pc EXCEPT ![p] = "init_check"]
            /\ attempt' = [attempt EXCEPT ![p] = @ + 1]
            /\ UNCHANGED <<op, ret, tries, exc, result, cursor>>
       ELSE InitReturn(p)
    /\ connection' = connection
    /\ Settle(conns)
    /\ UNCHANGED <<storeUp, setup>>

\* ------------------------------------------------------------- get_cursor
\* get_cursor() that never initializes lazily.
NeedsInitializeNever == FALSE

\* connection.py:64: if not self.connection or self.connection.closed
NeedsInitialize ==
    connection = None \/ conns[connection].state # "open"

\* connection.py:61-65 (and :81 for transaction()): entering the scope.
EnterScope(p, o) ==
    /\ p \in callers
    /\ pc[p] = "idle"
    /\ op' = [op EXCEPT ![p] = o]
    /\ result' = Observed([result EXCEPT ![p] = Pending])
    /\ IF NeedsInitialize
       THEN /\ EnterInitialize(p, "lazy")
            /\ hist' = Traced([hist EXCEPT ![p] =
                                 InitCounters(HistBegin(o), "lazy")])
       ELSE /\ pc' = [pc EXCEPT ![p] = "gc_cursor"]
            /\ hist' = Traced([hist EXCEPT ![p] = HistBegin(o)])
            /\ UNCHANGED <<ret, attempt, tries>>
    /\ UNCHANGED <<connection, conns, storeUp, setup, cursor, exc>>

\* connection.py:60-65: with self.get_cursor() entered by p.
get_cursor(p) == EnterScope(p, "get_cursor")

\* connection.py:78-81: with self.transaction() entered by p.
transaction(p) == EnterScope(p, "transaction")

\* connection.py:67: cursor = self.connection.cursor()
GcCursor(p) ==
    /\ p \in callers
    /\ pc[p] = "gc_cursor"
    /\ IF connection = None
       THEN \* None has no attribute cursor: not a driver error, it
            \* passes the handler of :72 and reaches the caller.
            /\ Finish(p, OtherError("AttributeError"), cursor[p])
            /\ hist' = Traced([hist EXCEPT ![p].cursorOn = "absent"])
       ELSE \E out \in CursorOutcomes(connection) :
            IF out = "ok"
            THEN /\ cursor' = [cursor EXCEPT ![p] =
                                [conn |-> connection, open |-> TRUE]]
                 /\ pc' = [pc EXCEPT ![p] =
                       IF op[p] = "transaction" THEN "tx_begin"
                       ELSE IF op[p] = "execute_query" THEN "eq_body"
                       ELSE "body"]
                 /\ hist' = Traced([hist EXCEPT
                                      ![p].cursorOn = conns[connection].state,
                                      ![p].yielded = TRUE,
                                      ![p].scopeConn = connection])
                 /\ UNCHANGED <<op, ret, attempt, tries, exc, result>>
            ELSE /\ exc' = [exc EXCEPT ![p] = DriverError(out)]
                 /\ pc' = [pc EXCEPT ![p] = "gc_handler"]
                 /\ hist' = Traced([hist EXCEPT
                                      ![p].cursorOn = conns[connection].state])
                 /\ UNCHANGED <<op, ret, attempt, tries, cursor, result>>
    /\ connection' = connection
    /\ Settle(conns)
    /\ UNCHANGED <<storeUp, setup>>

\* What the with-body can do next: leave normally, raise a non-driver
\* exception, or execute one more statement.
BodyEvents(p) ==
    {"exit", "ValueError"} \cup ExecOutcomes(cursor[p].conn, "SQL")

\* Where an exception of the with-body lands: in the handler of
\* transaction() (:86) or in the finally of get_cursor() (:70).
AfterBody(p) == IF op[p] = "transaction" THEN "tx_rollback" ELSE "gc_finally"

\* connection.py:69 and :84: the with-body of the scope, one step of it.
\* A statement that succeeds changes nothing the manager sees.
Body(p) ==
    /\ p \in callers
    /\ pc[p] = "body"
    /\ \E ev \in BodyEvents(p) :
         IF ev = "ok"
         THEN UNCHANGED <<pc, exc, hist>>
         ELSE IF ev = "exit"
         THEN /\ pc' = [pc EXCEPT ![p] =
                    IF op[p] = "transaction" THEN "tx_commit" ELSE "gc_finally"]
              /\ UNCHANGED <<hist, exc>>
         ELSE LET e == IF ev \in DriverMessages
                       THEN DriverError(ev) ELSE OtherError(ev)
              IN /\ exc' = [exc EXCEPT ![p] = e]
                 /\ hist' = Traced([hist EXCEPT ![p].bodyExc = e])
                 /\ pc' = [pc EXCEPT ![p] = AfterBody(p)]
    /\ UNCHANGED <<connection, conns, storeUp, setup, op, ret, attempt, tries,
                   cursor, result>>

\* A finally that closes the cursor only when no exception is in flight.
CursorClosedOnNormalExit(e) == e = NoExc

\* connection.py:70-71: finally: cursor.close(), on every exit path.
CursorClosedOnExit(e) == TRUE

\* connection.py:70-72: the finally of get_cursor(), then the exception in
\* flight (if any) either is a driver error and enters the handler, or
\* reaches the caller unchanged.  cursor.close() raises when the cursor's
\* connection has been closed.
GcFinally(p) ==
    /\ p \in callers
    /\ pc[p] = "gc_finally"
    /\ LET closing == CursorClosedOnExit(exc[p])
           fails == closing /\ conns[cursor[p].conn].state # "open"
           e == IF fails THEN DriverError("CursorConnClosed") ELSE exc[p]
           cur == IF closing THEN [cursor[p] EXCEPT !.open = FALSE]
                  ELSE cursor[p]
       IN /\ hist' = Traced([hist EXCEPT ![p].closes =
                               IF closing THEN @ + 1 ELSE @])
          /\ IF e.type = "pyodbc.Error"
             THEN /\ pc' = [pc EXCEPT ![p] = "gc_handler"]
                  /\ exc' = [exc EXCEPT ![p] = e]
                  /\ cursor' = [cursor EXCEPT ![p] = cur]
                  /\ UNCHANGED <<op, ret, attempt, tries, result>>
             ELSE Finish(p, IF e = NoExc THEN Returned ELSE e, cur)
    /\ connection' = connection
    /\ Settle(conns)
    /\ UNCHANGED <<storeUp, setup>>

\* A handler that raises the retry error without reconnecting.
ReconnectsNever(m) == FALSE

\* connection.py:73-74: if self._is_connection_error(e): self.initialize()
Reconnects(m) == is_connection_error(m)

\* connection.py:72-76: except pyodbc.Error: a connection-class error
\* re-initializes and then raises the retry error; any other driver error
\* raises the query error.
GcHandler(p) ==
    /\ p \in callers
    /\ pc[p] = "gc_handler"
    /\ IF Reconnects(exc[p].msg)
       THEN /\ EnterInitialize(p, "reconnect")
            /\ hist' = Traced([hist EXCEPT ![p] =
                                 InitCounters(@, "reconnect")])
            /\ UNCHANGED <<op, exc, result, cursor>>
       ELSE /\ Finish(p, DatabaseError(IF is_connection_error(exc[p].msg)
                                       THEN RetryAgain ELSE QueryFailed,
                                       exc[p]),
                      cursor[p])
            /\ UNCHANGED hist
    /\ connection' = connection
    /\ Settle(conns)
    /\ UNCHANGED <<storeUp, setup>>

\* ------------------------------------------------------------ transaction
\* One of BEGIN TRANSACTION, COMMIT, ROLLBACK executed on p's cursor with
\* outcome `out`: the store's transaction count and the log.
Issue(p, stmt, out) ==
    /\ hist' = Traced([hist EXCEPT ![p].log =
                         Append(@, <<stmt, out>>)])
    /\ IF out = "ok"
       THEN conns' = [conns EXCEPT ![cursor[p].conn].tran =
                        TranAfter(cursor[p].conn, stmt)]
       ELSE UNCHANGED conns

\* connection.py:82-83: cursor.execute("BEGIN TRANSACTION") inside the try.
TxBegin(p) ==
    /\ p \in callers
    /\ pc[p] = "tx_begin"
    /\ \E out \in ExecOutcomes(cursor[p].conn, "BEGIN") :
         /\ Issue(p, "BEGIN", out)
         /\ IF out = "ok"
            THEN /\ pc' = [pc EXCEPT ![p] = "body"]
                 /\ UNCHANGED exc
            ELSE /\ pc' = [pc EXCEPT ![p] = "tx_rollback"]
                 /\ exc' = [exc EXCEPT ![p] = DriverError(out)]
    /\ UNCHANGED <<connection, storeUp, setup, op, ret,
                   attempt, tries, cursor, result>>

\* connection.py:85: cursor.execute("COMMIT") after the body, inside the try.
TxCommit(p) ==
    /\ p \in callers
    /\ pc[p] = "tx_commit"
    /\ \E out \in ExecOutcomes(cursor[p].conn, "COMMIT") :
         /\ Issue(p, "COMMIT", out)
         /\ IF out = "ok"
            THEN /\ pc' = [pc EXCEPT ![p] = "gc_finally"]
                 /\ UNCHANGED exc
            ELSE /\ pc' = [pc EXCEPT ![p] = "tx_rollback"]
                 /\ exc' = [exc EXCEPT ![p] = DriverError(out)]
    /\ UNCHANGED <<connection, storeUp, setup, op, ret,
                   attempt, tries, cursor, result>>

\* The handler re-raises what it caught instead of wrapping it.
RaisedAfterRollbackBare(e) == e

\* connection.py:89: raise DatabaseError("Error en transaccion") from e
RaisedAfterRollback(e) == DatabaseError(TransactionFailed, e)

\* connection.py:86-89: except Exception as e: ROLLBACK, then raise the
\* transaction error from e; a ROLLBACK that raises replaces it.
TxRollback(p) ==
    /\ p \in callers
    /\ pc[p] = "tx_rollback"
    /\ \E out \in ExecOutcomes(cursor[p].conn, "ROLLBACK") :
         /\ Issue(p, "ROLLBACK", out)
         /\ exc' = [exc EXCEPT ![p] =
                      IF out = "ok"
                      THEN RaisedAfterRollback(exc[p])
                      ELSE DriverError(out)]
    /\ pc' = [pc EXCEPT ![p] = "gc_finally"]
    /\ UNCHANGED <<connection, storeUp, setup, op, ret,
                   attempt, tries, cursor, result>>

\* ---------------------------------------------------------- execute_query
\* Values of cursor.rowcount after a statement.
RowCounts == {0, 1}

\* connection.py:102-107: execute_query() called by p; its first attempt
\* enters the scope of get_cursor().
execute_query(p) ==
    /\ tries[p] = 0
    /\ EnterScope(p, "execute_query")

\* connection.py:108-109: cursor.execute(query, params or ()), then return
\* cursor.rowcount, through the finally of get_cursor(); a driver error of
\* the statement goes the same way.
EqBody(p) ==
    /\ p \in callers
    /\ pc[p] = "eq_body"
    /\ \E ev \in ExecOutcomes(cursor[p].conn, "SQL"), n \in RowCounts :
         IF ev = "ok"
         THEN /\ hist' = Traced([hist EXCEPT
                                   ![p].rowcounts = Append(@, n),
                                   ![p].returned = n])
              /\ UNCHANGED exc
         ELSE /\ exc' = [exc EXCEPT ![p] = DriverError(ev)]
              /\ hist' = Traced([hist EXCEPT
                                   ![p].bodyExc = DriverError(ev)])
    /\ pc' = [pc EXCEPT ![p] = "gc_finally"]
    /\ UNCHANGED <<connection, conns, storeUp, setup, op, ret, attempt,
                   tries, cursor, result>>

\* connection.py:110-113: the handler caught a DatabaseError it retries:
\* time.sleep(1); continue.
EqSleep(p) ==
    /\ p \in callers
    /\ pc[p] = "eq_sleep"
    /\ tries' = [tries EXCEPT ![p] = @ + 1]
    /\ pc' = [pc EXCEPT ![p] = "eq_enter"]
    /\ hist' = Traced([hist EXCEPT ![p].caught = Append(@, exc[p])])
    /\ exc' = [exc EXCEPT ![p] = NoExc]
    /\ UNCHANGED <<connection, conns, storeUp, setup, op, ret, attempt,
                   cursor, result>>

\* connection.py:105-107: the next attempt enters the scope of get_cursor().
EqEnter(p) ==
    /\ p \in callers
    /\ pc[p] = "eq_enter"
    /\ IF NeedsInitialize
       THEN /\ EnterInitialize(p, "lazy")
            /\ hist' = Traced([hist EXCEPT ![p] = InitCounters(@, "lazy")])
       ELSE /\ pc' = [pc EXCEPT ![p] = "gc_cursor"]
            /\ UNCHANGED <<ret, attempt, tries, hist>>
    /\ UNCHANGED <<connection, conns, storeUp, setup, op, cursor, exc,
                   result>>

\* ------------------------------------------------------------ environment
\* The link behind an open connection drops; the store rolls back what the
\* session had open.
LinkDrop(c) ==
    /\ conns[c].state = "open"
    /\ conns[c].alive
    /\ conns' = [conns EXCEPT ![c].alive = FALSE, ![c].tran = 0]
    /\ UNCHANGED <<connection, storeUp, setup, callVars>>

\* The store becomes unreachable: every link drops.
StoreDown ==
    /\ storeUp
    /\ storeUp' = FALSE
    /\ conns' = [c \in ConnIds |->
                   [conns[c] EXCEPT !.alive = FALSE, !.tran = 0]]
    /\ UNCHANGED <<connection, setup, callVars>>

\* The store is reachable again.
StoreUp ==
    /\ ~storeUp
    /\ storeUp' = TRUE
    /\ UNCHANGED <<connection, conns, setup, callVars>>

\* ---------------------------------------------------------- specification
\* A step inside an operation of caller p.
Step(p) ==
    \/ InitCheck(p) \/ InitConnect(p) \/ InitSleep(p)
    \/ GcCursor(p) \/ Body(p) \/ GcFinally(p) \/ GcHandler(p)
    \/ TxBegin(p) \/ TxCommit(p) \/ TxRollback(p)

\* A caller starts a public operation.
Call(p) ==
    \/ initialize(p) \/ get_cursor(p) \/ transaction(p) \/ close(p)

Environment ==
    \/ \E c \in ConnIds : LinkDrop(c)
    \/ StoreDown
    \/ StoreUp

Next ==
    \/ \E p \in Callers : Call(p)
    \/ \E p \in Callers : Step(p)
    \/ Environment

Spec == Init /\ [][Next]_vars

SpecConc == InitConc /\ [][Next]_vars

\* A caller inside an operation takes its next step sooner or later.
SpecFair == Init /\ [][Next]_vars /\ \A p \in Callers : WF_vars(Step(p))

\* A step inside execute_query() called by p.
StepQuery(p) ==
    \/ InitCheck(p) \/ InitConnect(p) \/ InitSleep(p)
    \/ GcCursor(p) \/ EqBody(p) \/ GcFinally(p) \/ GcHandler(p)
    \/ EqSleep(p) \/ EqEnter(p)

NextQuery ==
    \/ \E p \in Callers : execute_query(p) \/ close(p)
    \/ \E p \in Callers : StepQuery(p)
    \/ Environment

\* One caller runs execute_query() again and again, and closes the
\* connection in between.
SpecQuery == Init /\ [][NextQuery]_vars

\* =========================================================================
\* Part 3: the cache (src/database/cache.py).
\* =========================================================================

\* The time the runs last and the cache's time-to-live, in seconds.
MaxClock == 4
timeout_seconds == 2

\* The values the callers use; values are numbered from 1, and None is what
\* get() returns for no value.
CacheValues == {1, 2}

\* The entries of dict c other than those of keys ks.
Dropped(c, ks) == [k \in (DOMAIN c) \ ks |-> c[k]]

\* An expiry test that holds as soon as the age reaches the time-to-live.
ExpiredAtTimeout(stamp, now) == now - stamp >= timeout_seconds

\* cache.py:20: datetime.now() - timestamp > timedelta(seconds=self._timeout)
Expired(stamp, now) == now - stamp > timeout_seconds

\* cache.py:14-24, Cache.get on dict c at time now: what is returned, and
\* the dict afterwards.
Cache_get(c, key, now) ==
    IF key \notin DOMAIN c THEN [value |-> None, cache |-> c]
    ELSE IF Expired(c[key].stamp, now)
    THEN [value |-> None, cache |-> Dropped(c, {key})]
    ELSE [value |-> c[key].value, cache |-> c]

\* A set that stamps every entry anew.
Cache_set_all(c, key, value, now) ==
    [k \in DOMAIN c \cup {key} |->
        [value |-> IF k = key THEN value ELSE c[k].value, stamp |-> now]]

\* cache.py:26-28, Cache.set
Cache_set(c, key, value, now) ==
    (key :> [value |-> value, stamp |-> now]) @@ c

\* cache.py:30-32, Cache.delete
Cache_delete(c, key) == Dropped(c, {key})

\* cache.py:34-36, Cache.clear
Cache_clear(c) == <<>>

\* What no operation of the cache changes.
besideCache ==
    <<connection, conns, storeUp, callVars, callers, tracing, workload,
      probe, storeVars, svcVars, memoVars>>

\* cache.get(key) is called.
CacheGet ==
    \E key \in CacheKeys :
      /\ cache' = Cache_get(cache, key, clock).cache
      /\ got' = [called |-> TRUE, key |-> key,
                 value |-> Cache_get(cache, key, clock).value]
      /\ UNCHANGED <<clock, sets, besideCache>>

\* cache.set(key, value) is called.
CacheSet ==
    \E key \in CacheKeys, value \in CacheValues :
      /\ cache' = Cache_set(cache, key, value, clock)
      /\ sets' = (key :> [value |-> value, stamp |-> clock]) @@ sets
      /\ got' = NoGet
      /\ UNCHANGED <<clock, besideCache>>

\* cache.delete(key) is called.
CacheDelete ==
    \E key \in CacheKeys :
      /\ cache' = Cache_delete(cache, key)
      /\ sets' = Dropped(sets, {key})
      /\ got' = NoGet
      /\ UNCHANGED <<clock, besideCache>>

\* cache.clear() is called.
CacheClear ==
    /\ cache' = Cache_clear(cache)
    /\ sets' = <<>>
    /\ got' = NoGet
    /\ UNCHANGED <<clock, besideCache>>

\* A second passes.
Tick ==
    /\ clock < MaxClock
    /\ clock' = clock + 1
    /\ got' = NoGet
    /\ UNCHANGED <<cache, sets, besideCache>>

NextCache == CacheGet \/ CacheSet \/ CacheDelete \/ CacheClear \/ Tick

\* cache.py:9-12, __init__: an empty cache, used by one caller as time
\* passes.
InitCache ==
    /\ InitCommon /\ callers = {1} /\ tracing = FALSE
    /\ workload = "none" /\ probe = NoProbe

SpecCache == InitCache /\ [][NextCache]_vars

\* ------------------------------------------------ the cache decorators
\* The methods wrapped by cache_decorator and cache_invalidator, and the
\* cache itself, called by several callers with no lock: a step below is
\* one statement of cache.py, and the callers' steps interleave.  The
\* wrapped read method returns what the store holds for its argument: None
\* before the first write, then the number of the last write.  self._cache
\* is taken to exist, empty, from the start (cache.py:54-55 creates it on
\* the first wrapped read, and cache.py:85 skips the clear without it).
MaxVersion == 2

besideShared ==
    <<connection, conns, storeUp, callVars, callers, tracing, workload,
      probe, storeVars, svcVars, got, sets>>

\* Caller p is in no call.
Resting(p) == p \in callers /\ task[p].at \in {"idle", "done"}

\* The keys in use: one caller works on all keys, several callers contend
\* for one.
KeysInUse == IF callers = {1} THEN CacheKeys ELSE {"k1"}

\* The time a call ended, as far as it is recorded.
EndedAt == IF tracing THEN clock ELSE 0

\* What a new call of p remembers of p's call before it.
PrevOf(t) ==
    IF tracing /\ t.op = "cached" /\ t.at = "done" /\ t.raised = ""
    THEN [key |-> t.key, result |-> t.result, invoked |-> t.invoked,
          ended |-> t.ended]
    ELSE NoPrev

\* Caller p begins call o with key k at position `at`.
BeginTask(p, o, k, at) ==
    task' = [task EXCEPT ![p] =
               [NoTask EXCEPT !.op = o, !.at = at, !.key = k,
                              !.prev = PrevOf(task[p])]]

\* The call of p returns r.
ReturnTask(p, r) ==
    task' = [task EXCEPT ![p].at = "done", ![p].result = r,
                         ![p].ended = EndedAt]

\* The call of p raises exception e.
RaiseTask(p, e) ==
    task' = [task EXCEPT ![p].at = "done", ![p].raised = e,
                         ![p].ended = EndedAt]

\* Cache.get gives v: the caller of cache.get has its result; the wrapper
\* of cache_decorator returns a value that is not None (cache.py:62-63)
\* and otherwise goes on to call the wrapped method (cache.py:66).
AfterGet(p, v) ==
    IF task[p].op = "get" \/ v # None
    THEN ReturnTask(p, v)
    ELSE task' = [task EXCEPT ![p].at = "func"]

\* cache.py:39-70, cache_decorator: p calls the wrapped method with the
\* arguments that make key k; the wrapper begins with self._cache.get(key).
cache_decorator(p) ==
    /\ Resting(p)
    /\ \E k \in KeysInUse : BeginTask(p, "cached", k, "get_test")
    /\ UNCHANGED <<cache, clock, backing, besideShared>>

\* p calls cache.get(k) itself.
SharedGet(p) ==
    /\ Resting(p)
    /\ \E k \in KeysInUse : BeginTask(p, "get", k, "get_test")
    /\ UNCHANGED <<cache, clock, backing, besideShared>>

\* cache.py:16-17: if key not in self._cache: return None
GetTest(p) ==
    /\ p \in callers
    /\ task[p].at = "get_test"
    /\ IF task[p].key \notin DOMAIN cache
       THEN AfterGet(p, None)
       ELSE task' = [task EXCEPT ![p].at = "get_read"]
    /\ UNCHANGED <<cache, clock, backing, besideShared>>

\* cache.py:19: value, timestamp = self._cache[key]; KeyError without it.
GetRead(p) ==
    /\ p \in callers
    /\ task[p].at = "get_read"
    /\ IF task[p].key \notin DOMAIN cache
       THEN RaiseTask(p, "KeyError")
       ELSE task' = [task EXCEPT
                       ![p].at = "get_expiry",
                       ![p].value = cache[task[p].key].value,
                       ![p].stamp = cache[task[p].key].stamp]
    /\ UNCHANGED <<cache, clock, backing, besideShared>>

\* cache.py:20 and :24: the expiry test, and return value.
GetExpiry(p) ==
    /\ p \in callers
    /\ task[p].at = "get_expiry"
    /\ IF Expired(task[p].stamp, clock)
       THEN task' = [task EXCEPT ![p].at = "get_del"]
       ELSE AfterGet(p, task[p].value)
    /\ UNCHANGED <<cache, clock, backing, besideShared>>

\* cache.py:21-22: del self._cache[key] (KeyError without it); return None
GetDel(p) ==
    /\ p \in callers
    /\ task[p].at = "get_del"
    /\ IF task[p].key \notin DOMAIN cache
       THEN RaiseTask(p, "KeyError") /\ UNCHANGED cache
       ELSE /\ cache' = Dropped(cache, {task[p].key})
            /\ AfterGet(p, None)
    /\ UNCHANGED <<clock, backing, besideShared>>

\* cache.py:66: result = func(self, *args, **kwargs): the wrapped method
\* reads the store.
CallFunc(p) ==
    /\ p \in callers
    /\ task[p].at = "func"
    /\ task' = [task EXCEPT ![p].at = "set",
                            ![p].result = backing[task[p].key],
                            ![p].invoked = @ + 1]
    /\ UNCHANGED <<cache, clock, backing, besideShared>>

\* cache.py:67-68: self._cache.set(key, result); return result
SetResult(p) ==
    /\ p \in callers
    /\ task[p].at = "set"
    /\ cache' = Cache_set(cache, task[p].key, task[p].result, clock)
    /\ ReturnTask(p, task[p].result)
    /\ UNCHANGED <<clock, backing, besideShared>>

\* cache.py:72-88, cache_invalidator: p calls the wrapped write method for
\* the argument k; the wrapper begins with the method itself (cache.py:84),
\* which writes the store.
cache_invalidator(p) ==
    /\ Resting(p)
    /\ \E k \in KeysInUse :
         /\ backing[k] < MaxVersion
         /\ BeginTask(p, "invalidating", k, "write")
    /\ UNCHANGED <<cache, clock, backing, besideShared>>

\* cache.py:84: result = func(self, *args, **kwargs)
WriteFunc(p) ==
    /\ p \in callers
    /\ task[p].at = "write"
    /\ backing[task[p].key] < MaxVersion
    /\ backing' = [backing EXCEPT ![task[p].key] = @ + 1]
    /\ task' = [task EXCEPT ![p].at = "clear",
                            ![p].result = backing[task[p].key] + 1]
    /\ UNCHANGED <<cache, clock, besideShared>>

\* cache.py:85-87: self._cache.clear(); return result
ClearAfterWrite(p) ==
    /\ p \in callers
    /\ task[p].at = "clear"
    /\ cache' = Cache_clear(cache)
    /\ ReturnTask(p, task[p].result)
    /\ UNCHANGED <<clock, backing, besideShared>>

\* p calls cache.clear() itself.
SharedClear(p) ==
    /\ Resting(p)
    /\ cache' = Cache_clear(cache)
    /\ task' = [task EXCEPT ![p] =
                  [NoTask EXCEPT !.op = "clear", !.at = "done",
                                 !.ended = EndedAt]]
    /\ UNCHANGED <<clock, backing, besideShared>>

\* p calls cache.delete(k) itself.
SharedDelete(p) ==
    /\ Resting(p)
    /\ \E k \in KeysInUse :
         /\ cache' = Cache_delete(cache, k)
         /\ task' = [task EXCEPT ![p] =
                       [NoTask EXCEPT !.op = "delete", !.at = "done",
                                      !.key = k, !.ended = EndedAt]]
    /\ UNCHANGED <<clock, backing, besideShared>>

\* A second passes.
SharedTick ==
    /\ clock < MaxClock
    /\ clock' = clock + 1
    /\ UNCHANGED <<cache, backing, task, besideShared>>

\* A caller begins a call.
SharedCall(p) ==
    \/ cache_decorator(p) \/ cache_invalidator(p)
    \/ SharedGet(p) \/ SharedClear(p) \/ SharedDelete(p)

\* A caller takes the next step of its call.
SharedStep(p) ==
    \/ GetTest(p) \/ GetRead(p) \/ GetExpiry(p) \/ GetDel(p)
    \/ CallFunc(p) \/ SetResult(p) \/ WriteFunc(p) \/ ClearAfterWrite(p)

NextShared ==
    \/ \E p \in Callers : SharedCall(p)
    \/ \E p \in Callers : SharedStep(p)
    \/ SharedTick

\* One caller uses the wrapped methods and the cache, one call at a time.
InitMemo ==
    /\ InitCommon /\ callers = {1} /\ tracing = TRUE
    /\ workload = "none" /\ probe = NoProbe

SpecMemo == InitMemo /\ [][NextShared]_vars

\* Several callers share the object whose methods are wrapped.
SpecShared == InitConc /\ [][NextShared]_vars

\* =========================================================================
\* Part 2, continued: the store, TemplateRepository and TemplateService.
\* =========================================================================

\* ------------------------------------------------------------------ inputs
\* Image files that exist on disk (Path(template.Imagen).exists()); Path("")
\* is the current directory, which exists.
ImageExists(path) == path \in {"a.tif", "b.tif", ""}

\* image_utils.py:6-13, get_image_dpi: a.tif was scanned at 300 dpi, b.tif at
\* 600 dpi.
get_image_dpi(path) ==
    CASE path = "a.tif" -> 300 [] path = "b.tif" -> 600 [] OTHER -> 300

\* A run of the Service is about templates (several templates, their
\* copies and deletion, a few fields), about fields (one template, many
\* fields and their names) or about geometry (one template, fields that
\* are moved, resized and retyped), about objects that were changed after
\* their construction or carry unusual names, about the resolution of the
\* images, or about the cache next to the Service.
Workloads ==
    {"templates", "fields", "geometry", "objects", "resolution", "cache"}

\* The inputs of the workload at hand.
Drawn(ts, fs, gs) ==
    CASE workload = "templates" -> ts
      [] workload = "fields" -> fs
      [] workload = "geometry" -> gs
      [] OTHER -> {}

\* The inputs s, in workload w only.
Also(w, s) == IF workload = w THEN s ELSE {}

\* Template objects whose attributes were assigned after construction, so
\* that validate() (models.py:69-76) no longer holds of them.
MutatedTemplates ==
    Also("objects", { MkTemplate(0, <<>>, "x1", "a.tif", 1),
                      MkTemplate(0, <<"A", "2">>, "x1", "", 1),
                      MkTemplate(0, <<"A", "2">>, "x1", "a.tif", 0) })

\* The Template objects the callers submit to create_template: each passed
\* the constructor's validate() (models.py:23-26), and some were changed
\* afterwards.  The image gone.tif is not on disk.
TemplateInputs ==
    Drawn({ MkTemplate(0, <<"A", "1">>, "x1", "a.tif", 1),
            MkTemplate(0, <<"A", "[", "1", "]">>, "x2", "b.tif", 2),
            MkTemplate(0, <<"A", "1">>, "x1", "gone.tif", 1) },
          { MkTemplate(0, <<"A", "1">>, "x1", "a.tif", 1) },
          { MkTemplate(0, <<"A", "1">>, "x1", "a.tif", 1) })
    \cup Also("objects", { MkTemplate(0, <<"A", "1">>, "x1", "a.tif", 1) })
    \cup Also("resolution", { MkTemplate(0, <<"A", "1">>, "x1", "b.tif", 1) })
    \cup Also("cache", { MkTemplate(0, <<"A", "1">>, "x1", "a.tif", 1) })
    \cup MutatedTemplates

\* New names given to duplicate_template.
CopyNames ==
    Drawn({ <<" ", "A", "1">>, <<"A", "[", "1", "]">>, <<" ">> }, {}, {})

\* Rectangles (x, y, width, height) in 1/DefaultDpi inch: RB overlaps RA, RC
\* touches RA's right edge, RD is apart from all, RS lies in RA and is
\* below the 20-pixel floor at 300 dpi, RT is above the floor at 600 dpi and
\* below it at 300 dpi.
RA == [x |-> 300, y |-> 300, w |-> 150, h |-> 60]
RB == [x |-> 330, y |-> 300, w |-> 150, h |-> 60]
RC == [x |-> 450, y |-> 300, w |-> 150, h |-> 60]
RD == [x |-> 900, y |-> 300, w |-> 150, h |-> 60]
RS == [x |-> 300, y |-> 300, w |-> 10, h |-> 10]
RT == [x |-> 300, y |-> 300, w |-> 15, h |-> 15]

\* A submitted OMR field named n at rectangle r of page pg of template tid.
Omr(tid, n, r, pg) == MkField(0, tid, n, "OMR", r.x, r.y, r.w, r.h, pg, 1)

\* Names given to rename_field.
RenameNames ==
    Drawn({}, { <<"Q", "1">>, <<" ", "q", "2">>, <<"1">>, <<" ">> }, {})
    \cup Also("objects", { <<"q", "-">> })

\* Field objects whose attributes were assigned after construction, so that
\* validate() (models.py:114-138) no longer holds of them.
MutatedFields == Also("objects", { Omr(1, <<"q", "1">>, RD, 0) })

\* The Field objects the callers submit to create_field: each passed the
\* constructor's validate() (models.py:110-112), and some were changed
\* afterwards.
FieldInputs ==
    { f \in Also("objects", { Omr(1, <<"Q", "1">>, RA, 0),
                              Omr(1, <<"Q", "-">>, RD, 0) })
             \cup Also("race", { Omr(1, <<"Q", "1">>, RA, 0),
                                 Omr(1, <<"Q", "2">>, RB, 0) })
             \cup Also("resolution", { Omr(1, <<"Q", "1">>, RT, 0) })
             \cup
             Drawn({ Omr(1, <<"Q", "1">>, RA, 0), Omr(1, <<"Q", "2">>, RB, 0),
                    Omr(2, <<"Q", "1">>, RA, 0) },
                  { Omr(1, <<"Q", "1">>, RA, 0), Omr(1, <<"Q", "2">>, RB, 0),
                    Omr(1, <<"Q", "2">>, RC, 0), Omr(1, <<"Q", "1">>, RD, 0),
                    Omr(1, <<"Q", "2">>, RA, 1),
                    Omr(1, <<"Q", "2">>, RS, 0) },
                  { Omr(1, <<"Q", "1">>, RA, 0),
                    Omr(1, <<"Q", "2">>, RD, 0) }) :
        field_validate(f) = "" }
    \cup MutatedFields

\* The _dpi of the Field objects submitted: the default (models.py:108), or
\* what from_pixels() was given last (models.py:154).
FieldDpis == {DefaultDpi} \cup Also("resolution", {600})

\* ------------------------------------------------------------------- store
\* The rows of table tbl without those whose ID is in ids.
Without(tbl, ids) == [i \in (DOMAIN tbl) \ ids |-> tbl[i]]

\* The IDs of the fields of template tid in tables T.
FieldsOf(T, tid) == {i \in DOMAIN T.f : T.f[i].ID_Template = tid}

\* The rank of source field i among the fields ids being copied.
Rank(ids, i) == Cardinality({j \in ids : j <= i})

\* The identity values statement s consumes on tables T.
Consumes(s, T) ==
    [t |-> IF s.op = "INSERT Tbl_Template"
              \/ (s.op = "COPY Tbl_Template" /\ s.tid \in DOMAIN T.t)
           THEN 1 ELSE 0,
     f |-> IF s.op = "INSERT Tbl_Fields" THEN 1
           ELSE IF s.op = "COPY Tbl_Fields"
           THEN Cardinality(FieldsOf(T, s.tid))
           ELSE 0]

\* An INSERT that a constraint of the store turns down (no row is added)
\* when the table holds a field of the same template and page whose
\* rectangle meets the new one's.
InsertFieldUnlessConflict(s, T, ident) ==
    IF \E i \in DOMAIN T.f :
          /\ T.f[i].ID_Template = s.field.ID_Template
          /\ intersects(s.field, T.f[i])
    THEN T
    ELSE [T EXCEPT !.f = (ident.f + 1 :>
                            [s.field EXCEPT !.ID = ident.f + 1]) @@ @]

\* repository.py:233-248: INSERT INTO Tbl_Fields ... VALUES (...): the row
\* is added with the next identity value, whatever the table holds.
InsertField(s, T, ident) ==
    [T EXCEPT !.f = (ident.f + 1 :> [s.field EXCEPT !.ID = ident.f + 1]) @@ @]

\* An UPDATE of fields that matches on the field ID alone.
UpdateMatchesById(s, T) == s.field.ID \in DOMAIN T.f

\* repository.py:276: WHERE ID = ? AND ID_Template = ?
UpdateMatches(s, T) ==
    /\ s.field.ID \in DOMAIN T.f
    /\ T.f[s.field.ID].ID_Template = s.field.ID_Template

\* The tables after statement s on tables T with identity values ident;
\* nid is the value bound to the statement's new-template parameter.
TablesAfter(s, T, ident, nid) ==
    CASE s.op = "INSERT Tbl_Template" ->
           [T EXCEPT !.t = (ident.t + 1 :>
                              [s.template EXCEPT !.ID = ident.t + 1]) @@ @]
      [] s.op = "UPDATE Tbl_Template" ->
           IF s.template.ID \in DOMAIN T.t
           THEN [T EXCEPT !.t[s.template.ID] = s.template]
           ELSE T
      [] s.op = "DELETE Tbl_Template" ->
           [T EXCEPT !.t = Without(@, {s.tid})]
      [] s.op = "DELETE Tbl_Fields OF" ->
           [T EXCEPT !.f = Without(@, FieldsOf(T, s.tid))]
      [] s.op = "INSERT Tbl_Fields" -> InsertField(s, T, ident)
      [] s.op = "UPDATE Tbl_Fields" ->
           IF UpdateMatches(s, T)
           THEN [T EXCEPT !.f[s.field.ID] = s.field]
           ELSE T
      [] s.op = "DELETE Tbl_Fields" ->
           [T EXCEPT !.f = Without(@, {s.fid})]
      [] s.op = "COPY Tbl_Template" ->
           IF s.tid \in DOMAIN T.t
           THEN [T EXCEPT !.t = (ident.t + 1 :>
                    [T.t[s.tid] EXCEPT !.ID = ident.t + 1,
                                       !.Nombre = s.name]) @@ @]
           ELSE T
      [] s.op = "COPY Tbl_Fields" ->
           LET src == FieldsOf(T, s.tid)
               new == {ident.f + Rank(src, i) : i \in src}
               from(n) == CHOOSE i \in src : ident.f + Rank(src, i) = n
           IN [T EXCEPT !.f =
                 [n \in new |-> [T.f[from(n)] EXCEPT !.ID = n,
                                                     !.ID_Template = nid]]
                 @@ @]

\* cursor.rowcount after statement s on tables T.
RowCount(s, T) ==
    CASE s.op = "UPDATE Tbl_Template" ->
           IF s.template.ID \in DOMAIN T.t THEN 1 ELSE 0
      [] s.op = "DELETE Tbl_Template" ->
           IF s.tid \in DOMAIN T.t THEN 1 ELSE 0
      [] s.op = "UPDATE Tbl_Fields" ->
           IF UpdateMatches(s, T)
           THEN 1 ELSE 0
      [] s.op = "DELETE Tbl_Fields" ->
           IF s.fid \in DOMAIN T.f THEN 1 ELSE 0
      [] s.op = "DELETE Tbl_Fields OF" -> Cardinality(FieldsOf(T, s.tid))
      [] s.op = "COPY Tbl_Fields" -> Cardinality(FieldsOf(T, s.tid))
      [] OTHER -> 1

\* cursor.fetchval() after statement s: the identity value of the inserted
\* template or field row, 0 for None.
FetchVal(s, T, ident) ==
    CASE s.op = "INSERT Tbl_Template" -> ident.t + 1
      [] s.op = "INSERT Tbl_Fields" -> ident.f + 1
      [] s.op = "COPY Tbl_Template" ->
           IF s.tid \in DOMAIN T.t THEN ident.t + 1 ELSE 0
      [] OTHER -> 0

\* -------------------------------------------------------------- repository
\* The store's order of characters (the ones the names here are made of).
CharOrd(ch) ==
    CASE ch = " " -> 0 [] ch = "1" -> 1 [] ch = "2" -> 2 [] ch = "A" -> 3
      [] ch = "Q" -> 4 [] ch = "q" -> 4 [] ch = "[" -> 5 [] ch = "]" -> 6
      [] ch = "-" -> 7

\* ORDER BY on a name column: a sorts before b.
RECURSIVE NameBefore(_, _)
NameBefore(a, b) ==
    IF b = <<>> THEN FALSE
    ELSE IF a = <<>> THEN TRUE
    ELSE IF CharOrd(Head(a)) # CharOrd(Head(b))
         THEN CharOrd(Head(a)) < CharOrd(Head(b))
    ELSE NameBefore(Tail(a), Tail(b))

\* ORDER BY NroPagina, Nombre_Campo: f sorts before g (rows that tie are
\* taken in the order of their IDs).
FieldBefore(f, g) ==
    IF f.NroPagina # g.NroPagina THEN f.NroPagina < g.NroPagina
    ELSE IF f.Nombre_Campo # g.Nombre_Campo
         THEN NameBefore(f.Nombre_Campo, g.Nombre_Campo)
    ELSE f.ID < g.ID

\* The rows fs as the list the query returns.
RECURSIVE Ordered(_)
Ordered(fs) ==
    IF fs = {} THEN <<>>
    ELSE LET first == CHOOSE f \in fs :
                         \A g \in fs \ {f} : FieldBefore(f, g)
         IN <<first>> \o Ordered(fs \ {first})

\* repository.py:32-47, get_template_by_id: the row, or NoTemplate (None).
get_template_by_id(T, id) ==
    IF id \in DOMAIN T.t THEN T.t[id] ELSE NoTemplate

\* repository.py:192-218, get_field_by_id: the row, or NoField (None).
get_field_by_id(T, id) ==
    IF id \in DOMAIN T.f THEN T.f[id] ELSE NoField

\* repository.py:161-190, get_template_fields
repository_get_template_fields(T, tid) ==
    Ordered({T.f[i] : i \in FieldsOf(T, tid)})

\* repository.py:320-349, get_fields_by_page
get_fields_by_page(T, tid, page) ==
    Ordered({T.f[i] : i \in {j \in FieldsOf(T, tid) :
                                T.f[j].NroPagina = page}})

\* repository.py:351-375, search_templates: WHERE Nombre LIKE '%text%'
search_templates(T, text) ==
    {T.t[i] : i \in {j \in DOMAIN T.t :
                        Like(<<"%">> \o text \o <<"%">>, T.t[j].Nombre)}}

\* The first row of the list rows that field f intersects and whose ID is
\* not `self`, or NoField.
FirstConflict(f, rows, self) ==
    LET hits == {k \in 1..Len(rows) :
                    rows[k].ID # self /\ intersects(f, rows[k])}
    IN IF hits = {} THEN NoField
       ELSE rows[CHOOSE k \in hits : \A m \in hits : k <= m]

\* A statement of a repository write, in the shape of a call.
Stmt(kind, c) == [c EXCEPT !.op = kind]

\* ----------------------------------------------------------------- service
\* The checks of each Service operation on the tables T it reads, in the
\* order of the code: the exception raised, or SvcPending to go on to the
\* repository's write.

\* service.py:266, min_size_inches = 20 / field._dpi, in 1/DefaultDpi inch.
MinSize(dpi) == (MinFieldPx * DefaultDpi) \div dpi

\* service.py:267: the size check at the Field object's _dpi.
BelowMinSize(w, h, dpi) == w < MinSize(dpi) \/ h < MinSize(dpi)

\* An overlap loop whose error does not name the field found.
OverlapErrorUnnamed(f, T, self) ==
    LET hit == FirstConflict(f,
                   get_fields_by_page(T, f.ID_Template, f.NroPagina), self)
    IN IF hit = NoField THEN SvcPending
       ELSE ValidationError("overlap", <<>>)

\* An overlap loop that finds nothing.
OverlapErrorSkipped(f, T, self) == SvcPending

\* service.py:273-283 and :330-340: the overlap loop.
OverlapError(f, T, self) ==
    LET hit == FirstConflict(f,
                   get_fields_by_page(T, f.ID_Template, f.NroPagina), self)
    IN IF hit = NoField THEN SvcPending
       ELSE ValidationError("overlap", hit.Nombre_Campo)

\* service.py:120-128
create_template_check(T, t) ==
    IF ~ImageExists(t.Imagen) THEN ValidationError("image not found", <<>>)
    ELSE IF \E e \in search_templates(T, t.Nombre) : e.Nombre = t.Nombre
    THEN ValidationError("template name exists", <<>>)
    ELSE SvcPending

\* service.py:152-165
update_template_check(T, t) ==
    IF get_template_by_id(T, t.ID) = NoTemplate
    THEN ValidationError("no template", <<>>)
    ELSE IF ~ImageExists(t.Imagen)
    THEN ValidationError("image not found", <<>>)
    ELSE IF \E e \in search_templates(T, t.Nombre) :
               e.Nombre = t.Nombre /\ e.ID # t.ID
    THEN ValidationError("template name exists", <<>>)
    ELSE SvcPending

\* service.py:189-196
delete_template_check(T, tid) ==
    IF get_template_by_id(T, tid) = NoTemplate
    THEN ValidationError("no template", <<>>)
    ELSE SvcPending

\* service.py:228-233
get_template_fields_check(T, tid) ==
    IF get_template_by_id(T, tid) = NoTemplate
    THEN ValidationError("no template", <<>>)
    ELSE SvcRows(repository_get_template_fields(T, tid))

\* service.py:255-283
create_field_check(T, f, dpi) ==
    IF get_template_by_id(T, f.ID_Template) = NoTemplate
    THEN ValidationError("no template", <<>>)
    ELSE IF f.Tipo_Campo \notin RegionType
    THEN ValidationError("invalid type", <<>>)
    ELSE IF BelowMinSize(f.Cord_width, f.Cord_height, dpi)
    THEN ValidationError("below minimum size", <<>>)
    ELSE OverlapError(f, T, 0)

\* service.py:307-340
update_field_check(T, f, dpi) ==
    IF get_field_by_id(T, f.ID) = NoField
    THEN ValidationError("no field", <<>>)
    ELSE IF get_template_by_id(T, f.ID_Template) = NoTemplate
    THEN ValidationError("no template", <<>>)
    ELSE IF f.Tipo_Campo \notin RegionType
    THEN ValidationError("invalid type", <<>>)
    ELSE IF BelowMinSize(f.Cord_width, f.Cord_height, dpi)
    THEN ValidationError("below minimum size", <<>>)
    ELSE OverlapError(f, T, f.ID)

\* service.py:364-368
delete_field_check(T, fid) ==
    IF get_field_by_id(T, fid) = NoField
    THEN ValidationError("no field", <<>>)
    ELSE SvcPending

\* service.py:440-442: the stored field at its new place.
Moved(T, fid, x, y) ==
    [get_field_by_id(T, fid) EXCEPT !.Cord_x = x, !.Cord_y = y]

\* service.py:430-454
move_field_check(T, fid, x, y) ==
    IF get_field_by_id(T, fid) = NoField
    THEN ValidationError("no field", <<>>)
    ELSE IF x < 0 \/ y < 0
    THEN ValidationError("negative coordinates", <<>>)
    ELSE OverlapError(Moved(T, fid, x, y), T, fid)

\* service.py:494-496: the stored field with its new size.
Resized(T, fid, w, h) ==
    [get_field_by_id(T, fid) EXCEPT !.Cord_width = w, !.Cord_height = h]

\* service.py:480-508; the _dpi of the Field the repository built from the
\* row is the default.
resize_field_check(T, fid, w, h) ==
    IF get_field_by_id(T, fid) = NoField
    THEN ValidationError("no field", <<>>)
    ELSE IF BelowMinSize(w, h, DefaultDpi)
    THEN ValidationError("below minimum size", <<>>)
    ELSE OverlapError(Resized(T, fid, w, h), T, fid)

\* service.py:540: new_name.strip().upper()
CleanFieldName(name) == Upper(Strip(name))

\* service.py:553: the stored field with its new name.
Renamed(T, fid, name) ==
    [get_field_by_id(T, fid) EXCEPT !.Nombre_Campo = CleanFieldName(name)]

\* service.py:533-550
rename_field_check(T, fid, name) ==
    IF get_field_by_id(T, fid) = NoField
    THEN ValidationError("no field", <<>>)
    ELSE IF CleanFieldName(name) = <<>>
    THEN ValidationError("empty name", <<>>)
    ELSE IF Len(CleanFieldName(name)) > MaxNameLen
    THEN ValidationError("name too long", <<>>)
    ELSE IF \E i \in FieldsOf(T, get_field_by_id(T, fid).ID_Template) :
               T.f[i].Nombre_Campo = CleanFieldName(name) /\ i # fid
    THEN ValidationError("field name exists", CleanFieldName(name))
    ELSE SvcPending

\* service.py:589: the stored field with its new type.
Retyped(T, fid, type) ==
    [get_field_by_id(T, fid) EXCEPT !.Tipo_Campo = type]

\* service.py:577-586
change_field_type_check(T, fid, type) ==
    IF get_field_by_id(T, fid) = NoField
    THEN ValidationError("no field", <<>>)
    ELSE IF type \notin RegionType
    THEN ValidationError("invalid type", <<>>)
    ELSE SvcPending

\* service.py:620: new_name.strip(), kept as it is.
CopyNameKept(name) == name

\* service.py:620: new_name = new_name.strip()
CopyName(name) == Strip(name)

\* service.py:613-631
duplicate_template_check(T, tid, name) ==
    IF get_template_by_id(T, tid) = NoTemplate
    THEN ValidationError("no template", <<>>)
    ELSE IF CopyName(name) = <<>>
    THEN ValidationError("empty name", <<>>)
    ELSE IF ~ImageExists(get_template_by_id(T, tid).Imagen)
    THEN ValidationError("image not found", <<>>)
    ELSE IF \E e \in search_templates(T, CopyName(name)) :
               e.Nombre = CopyName(name)
    THEN ValidationError("template name exists", <<>>)
    ELSE SvcPending

\* ------------------------------------------------------------ transactions
\* connection.py:78-89 as the repository's writes use it: BEGIN, the
\* statements, COMMIT; ROLLBACK when any of them raises.  A statement that
\* raises has had no effect; a ROLLBACK ends the transaction whether it is
\* executed or the session is lost with it.

\* A repository that lets the exception through as a ValidationError.
RepositoryRaisesValidation == ValidationError("repository", <<>>)

\* repository.py:253-255 (and the same clause of every method): whatever is
\* raised inside a repository method reaches the Service as DatabaseError.
RepositoryRaises == SvcDatabaseError

\* The session's tables after a ROLLBACK that restores nothing.
RolledBackKept(T, u) == T

\* connection.py:85-87: the session's tables T after ROLLBACK of a
\* transaction begun on tables u.
RolledBack(T, u) == u

\* repository.py:391-409 without the copy of the fields.
duplicate_template_stmts_no_fields(c) == << Stmt("COPY Tbl_Template", c) >>

\* repository.py:391-409, duplicate_template: the two INSERT ... SELECT.
duplicate_template_stmts(c) ==
    << Stmt("COPY Tbl_Template", c), Stmt("COPY Tbl_Fields", c) >>

\* repository.py:141-150 without the DELETE of the fields.
delete_template_stmts_template_only(c) ==
    << Stmt("DELETE Tbl_Template", c) >>

\* repository.py:141-150, delete_template: the fields, then the template.
delete_template_stmts(c) ==
    << Stmt("DELETE Tbl_Fields OF", c), Stmt("DELETE Tbl_Template", c) >>

\* What no step of the Service shown here changes: the connection
\* manager's own state, and the run's callers and workload.
connVars ==
    <<connection, conns, storeUp, callVars, callers, tracing, workload,
      probe, cacheVars>>

\* The Service operation of caller p ends with r.
DataFinish(p, r) ==
    /\ spc' = [spc EXCEPT ![p] = "done"]
    /\ sres' = [sres EXCEPT ![p] = r]
    /\ todo' = [todo EXCEPT ![p] = <<>>]

\* The identity values the statements ss consume on tables T fit the
\* bounds.
RECURSIVE Fits(_, _, _)
Fits(ss, T, ident) ==
    IF ss = <<>> THEN ident.t <= MaxTemplates /\ ident.f <= MaxFields
    ELSE Fits(Tail(ss), T,
              [t |-> ident.t + Consumes(Head(ss), T).t,
               f |-> ident.f + Consumes(Head(ss), T).f])

\* Caller p calls Service operation c.  `early` is the outcome of the checks
\* made before the first read, `res` that of the checks on the tables,
\* `invalid` whether the repository's validate() raises, `stmts` the
\* statements of the repository's transaction.  A read that fails, and a
\* validate() that raises, reach the caller as DatabaseError (its text
\* here tells the cause it was raised from).  The committed tables at the
\* call are recorded in runs that record.
Serve(p, c, early, res, invalid, stmts) ==
    /\ p \in callers
    /\ spc[p] = "idle"
    /\ call' = [call EXCEPT ![p] = c]
    /\ pre' = [pre EXCEPT ![p] =
                IF tracing THEN Committed ELSE EmptyTables]
    /\ retval' = [retval EXCEPT ![p] = 0]
    /\ began' = [began EXCEPT ![p] = FALSE]
    /\ IF early.kind # "pending" THEN DataFinish(p, early)
       ELSE \E readsOk \in BOOLEAN :
              IF ~readsOk
              THEN DataFinish(p, [SvcDatabaseError EXCEPT !.text = "read"])
              ELSE IF res.kind # "pending" THEN DataFinish(p, res)
              ELSE IF invalid
              THEN DataFinish(p, [RepositoryRaises EXCEPT
                                     !.text = "validate"])
              ELSE /\ Fits(stmts, Tables, identity)
                   /\ spc' = [spc EXCEPT ![p] = "begin"]
                   /\ todo' = [todo EXCEPT ![p] = stmts]
                   /\ sres' = [sres EXCEPT ![p] = SvcPending]
    /\ UNCHANGED <<storeVars, deleted, connVars>>

\* The caller of p's finished operation has its result; p is free for the
\* next one.
ServiceReturn(p) ==
    /\ spc[p] = "done"
    /\ spc' = [spc EXCEPT ![p] = "idle"]
    /\ call' = [call EXCEPT ![p] = NoCall]
    /\ sres' = [sres EXCEPT ![p] = SvcPending]
    /\ pre' = [pre EXCEPT ![p] = EmptyTables]
    /\ retval' = [retval EXCEPT ![p] = 0]
    /\ began' = [began EXCEPT ![p] = FALSE]
    /\ UNCHANGED <<storeVars, todo, deleted, connVars>>

\* connection.py:81, BEGIN TRANSACTION
RepoBegin(p) ==
    /\ spc[p] = "begin"
    /\ began' = [began EXCEPT ![p] = TRUE]
    /\ \E ok \in BOOLEAN :
         IF ok
         THEN /\ undo' = IF trancount = 0 THEN Tables ELSE undo
              /\ trancount' = trancount + 1
              /\ spc' = [spc EXCEPT ![p] = "execute"]
         ELSE /\ spc' = [spc EXCEPT ![p] = "rollback"]
              /\ UNCHANGED <<undo, trancount>>
    /\ UNCHANGED <<Tbl_Template, Tbl_Fields, identity, call, todo, retval,
                   sres, pre, deleted, connVars>>

\* What the repository call is to return after statement s on tables T.
RetvalAfter(s, T, ident, old) ==
    IF s.op \in {"INSERT Tbl_Template", "INSERT Tbl_Fields",
                 "COPY Tbl_Template"}
    THEN FetchVal(s, T, ident)
    ELSE IF s.op = "COPY Tbl_Fields" THEN old
    ELSE IF RowCount(s, T) > 0 THEN 1 ELSE 0

\* One cursor.execute of the repository's transaction body.
RepoExecute(p) ==
    /\ spc[p] = "execute"
    /\ \E ok \in BOOLEAN :
         IF ok
         THEN LET s == Head(todo[p])
                  after == TablesAfter(s, Tables, identity, retval[p])
              IN /\ Tbl_Template' = after.t
                 /\ Tbl_Fields' = after.f
                 /\ identity' =
                      [t |-> identity.t + Consumes(s, Tables).t,
                       f |-> identity.f + Consumes(s, Tables).f]
                 /\ retval' = [retval EXCEPT ![p] =
                                 RetvalAfter(s, Tables, identity, @)]
                 /\ todo' = [todo EXCEPT ![p] = Tail(@)]
                 /\ spc' = [spc EXCEPT ![p] =
                              IF Tail(todo[p]) = <<>> THEN "commit"
                              ELSE "execute"]
         ELSE /\ spc' = [spc EXCEPT ![p] = "rollback"]
              /\ UNCHANGED <<Tbl_Template, Tbl_Fields, identity, retval,
                             todo>>
    /\ UNCHANGED <<undo, trancount, call, sres, pre, deleted, began,
                   connVars>>

\* connection.py:83, COMMIT TRANSACTION
RepoCommit(p) ==
    /\ spc[p] = "commit"
    /\ \E ok \in BOOLEAN :
         IF ok
         THEN /\ trancount' = IF trancount > 0 THEN trancount - 1 ELSE 0
              /\ DataFinish(p, SvcReturn(retval[p]))
              /\ deleted' = IF call[p].op = "delete_template"
                                /\ retval[p] = 1
                             THEN deleted \cup {call[p].tid} ELSE deleted
         ELSE /\ spc' = [spc EXCEPT ![p] = "rollback"]
              /\ UNCHANGED <<trancount, sres, todo, deleted>>
    /\ UNCHANGED <<Tbl_Template, Tbl_Fields, undo, identity, call, retval,
                   pre, began, connVars>>

\* connection.py:85-89, ROLLBACK TRANSACTION and the error raised.
RepoRollback(p) ==
    /\ spc[p] = "rollback"
    /\ Tbl_Template' =
         IF trancount > 0 THEN RolledBack(Tables, undo).t ELSE Tbl_Template
    /\ Tbl_Fields' =
         IF trancount > 0 THEN RolledBack(Tables, undo).f ELSE Tbl_Fields
    /\ trancount' = 0
    /\ DataFinish(p, RepositoryRaises)
    /\ UNCHANGED <<undo, identity, call, retval, pre, deleted, began,
                   connVars>>

\* ------------------------------------------------------ Service operations
\* Places given to move_field and sizes given to resize_field.
Places == Drawn({}, {}, { <<330, 300>>, <<0 - 30, 300>> })
Sizes ==
    Drawn({}, {}, { <<630, 60>>, <<10, 10>> })
    \cup Also("resolution", { <<15, 15>> })

\* Types given to change_field_type.
TypeInputs == Drawn({}, {}, { "ICR", "CHECKBOX" })

\* The Field objects given to update_field: a submitted field with the ID
\* of a row.
FieldUpdates ==
    { [f EXCEPT !.ID = i] :
        f \in Drawn({ Omr(2, <<"Q", "1">>, RD, 0) },
                   { Omr(1, <<"Q", "1">>, RA, 0),
                     Omr(1, <<"Q", "2">>, RB, 0),
                     Omr(1, <<"Q", "1">>, RD, 0) }, {})
              \cup Also("resolution", { Omr(1, <<"Q", "1">>, RT, 0) })
              \cup Also("race", { Omr(1, <<"Q", "1">>, RD, 0) }),
        i \in FieldIds }

\* The Template objects given to update_template.
TemplateUpdates ==
    { [t EXCEPT !.ID = i] : t \in TemplateInputs, i \in TemplateIds }

\* service.py:106-136
create_template(p) ==
    \E t \in TemplateInputs :
      LET c == [NoCall EXCEPT !.op = "create_template", !.template = t]
      IN Serve(p, c,
               IF ImageExists(t.Imagen) THEN SvcPending
               ELSE create_template_check(Tables, t),
               create_template_check(Tables, t),
               template_validate(t) # "",
               << Stmt("INSERT Tbl_Template", c) >>)

\* service.py:138-173
update_template(p) ==
    \E t \in TemplateUpdates :
      LET c == [NoCall EXCEPT !.op = "update_template", !.template = t,
                              !.tid = t.ID]
      IN Serve(p, c, SvcPending, update_template_check(Tables, t),
               template_validate(t) # "",
               << Stmt("UPDATE Tbl_Template", c) >>)

\* service.py:175-212
delete_template(p) ==
    /\ spc[p] = "idle"
    /\ \E tid \in TemplateIds :
           LET c == [NoCall EXCEPT !.op = "delete_template", !.tid = tid]
           IN Serve(p, c, SvcPending, delete_template_check(Tables, tid),
                    FALSE, delete_template_stmts(c))

\* service.py:214-239
get_template_fields(p) ==
    /\ spc[p] = "idle"
    /\ \E tid \in TemplateIds :
           LET c == [NoCall EXCEPT !.op = "get_template_fields", !.tid = tid]
           IN Serve(p, c, SvcPending, get_template_fields_check(Tables, tid),
                    FALSE, <<>>)

\* service.py:241-291
create_field(p) ==
    \E f \in FieldInputs, dpi \in FieldDpis :
      LET c == [NoCall EXCEPT !.op = "create_field", !.field = f,
                              !.tid = f.ID_Template, !.a = dpi]
      IN Serve(p, c, SvcPending, create_field_check(Tables, f, dpi),
               field_validate(f) # "",
               << Stmt("INSERT Tbl_Fields", c) >>)

\* service.py:293-348
update_field(p) ==
    \E f \in FieldUpdates, dpi \in FieldDpis :
      LET c == [NoCall EXCEPT !.op = "update_field", !.field = f,
                              !.fid = f.ID, !.tid = f.ID_Template,
                              !.a = dpi]
      IN Serve(p, c, SvcPending, update_field_check(Tables, f, dpi),
               field_validate(f) # "",
               << Stmt("UPDATE Tbl_Fields", c) >>)

\* service.py:350-376
delete_field(p) ==
    /\ spc[p] = "idle"
    /\ \E fid \in FieldIds :
           LET c == [NoCall EXCEPT !.op = "delete_field", !.fid = fid]
           IN Serve(p, c, SvcPending, delete_field_check(Tables, fid),
                    FALSE, << Stmt("DELETE Tbl_Fields", c) >>)

\* service.py:414-462
move_field(p) ==
    \E fid \in FieldIds, xy \in Places :
      LET f == Moved(Tables, fid, xy[1], xy[2])
          c == [NoCall EXCEPT !.op = "move_field", !.fid = fid,
                              !.a = xy[1], !.b = xy[2], !.field = f]
      IN Serve(p, c, SvcPending,
               move_field_check(Tables, fid, xy[1], xy[2]),
               field_validate(f) # "",
               << Stmt("UPDATE Tbl_Fields", c) >>)

\* service.py:464-516
resize_field(p) ==
    \E fid \in FieldIds, wh \in Sizes :
      LET f == Resized(Tables, fid, wh[1], wh[2])
          c == [NoCall EXCEPT !.op = "resize_field", !.fid = fid,
                              !.a = wh[1], !.b = wh[2], !.field = f]
      IN Serve(p, c, SvcPending,
               resize_field_check(Tables, fid, wh[1], wh[2]),
               field_validate(f) # "",
               << Stmt("UPDATE Tbl_Fields", c) >>)

\* service.py:518-560
rename_field(p) ==
    \E fid \in FieldIds, n \in RenameNames :
      LET f == Renamed(Tables, fid, n)
          c == [NoCall EXCEPT !.op = "rename_field", !.fid = fid,
                              !.name = n, !.field = f]
      IN Serve(p, c, SvcPending, rename_field_check(Tables, fid, n),
               field_validate(f) # "",
               << Stmt("UPDATE Tbl_Fields", c) >>)

\* service.py:562-596
change_field_type(p) ==
    \E fid \in FieldIds, ty \in TypeInputs :
      LET f == Retyped(Tables, fid, ty)
          c == [NoCall EXCEPT !.op = "change_field_type", !.fid = fid,
                              !.type = ty, !.field = f]
      IN Serve(p, c, SvcPending, change_field_type_check(Tables, fid, ty),
               field_validate(f) # "",
               << Stmt("UPDATE Tbl_Fields", c) >>)

\* service.py:598-639
duplicate_template(p) ==
    \E tid \in TemplateIds, n \in CopyNames :
      LET c == [NoCall EXCEPT !.op = "duplicate_template", !.tid = tid,
                              !.name = n]
      IN Serve(p, c, SvcPending, duplicate_template_check(Tables, tid, n),
               FALSE,
               duplicate_template_stmts([c EXCEPT !.name = CopyName(n)]))

ServiceCall(p) ==
    \/ create_template(p) \/ update_template(p) \/ delete_template(p)
    \/ get_template_fields(p) \/ create_field(p) \/ update_field(p)
    \/ delete_field(p) \/ move_field(p) \/ resize_field(p)
    \/ rename_field(p) \/ change_field_type(p) \/ duplicate_template(p)

RepoStep(p) ==
    \/ RepoBegin(p) \/ RepoExecute(p) \/ RepoCommit(p) \/ RepoRollback(p)

\* Between the Service's operations a caller keeps a result in the cache.
Caching ==
    /\ workload = "cache"
    /\ \A p \in callers : spc[p] = "idle"
    /\ CacheSet

NextData ==
    \/ \E p \in Callers : ServiceCall(p)
    \/ \E p \in Callers : RepoStep(p)
    \/ \E p \in Callers : ServiceReturn(p)
    \/ Caching

\* One caller works on the tables through the Service, one operation at a
\* time.
InitService ==
    /\ InitCommon /\ callers = {1} /\ tracing = TRUE
    /\ workload \in Workloads /\ probe = NoProbe

SpecData == InitService /\ [][NextData]_vars

\* ------------------------------------------------------------ Field objects
\* Field objects on a grid of places, two sizes and two pages: for every
\* pair there are those apart, those that touch at an edge or a corner,
\* those that overlap and those on different pages.
GridFields ==
    { MkField(0, 1, <<"Q", "1">>, "OMR", x, y, w, 60, pg, 1) :
        x \in {300, 330, 450, 900}, y \in {300, 360}, w \in {150, 630},
        pg \in {0, 1} }

InitFields ==
    /\ InitCommon /\ callers = {1} /\ tracing = FALSE
    /\ workload = "none"
    /\ probe \in {Probe(a, b) : a \in GridFields, b \in GridFields}

\* models.py:140-150: a.intersects(b) and b.intersects(a) are called.
CallIntersects ==
    /\ ~probe.called
    /\ probe' = [probe EXCEPT !.called = TRUE,
                              !.ab = intersects(probe.a, probe.b),
                              !.ba = intersects(probe.b, probe.a)]
    /\ UNCHANGED <<connection, conns, storeUp, callVars, callers, tracing,
                   workload, storeVars, svcVars, cacheVars>>

\* intersects() is applied to two Field objects.
SpecFields == InitFields /\ [][CallIntersects]_vars

\* ------------------------------------------------------- integrity report
\* A warning of the report, about the fields named a and b.
Warning(text, a, b) == [warning |-> text, a |-> a, b |-> b]

\* service.py:664-697: the warnings of validate_template for template t with
\* the list of fields fs, in the order the code appends them.
Warnings(t, fs) ==
    LET n == Len(fs)
        ks == [k \in 1..n |-> k]
        ms == [m \in 1..(n * n) |-> m]
        i(m) == ((m - 1) \div n) + 1
        j(m) == ((m - 1) % n) + 1
        dup == SelectSeq(ks, LAMBDA k :
                   \E h \in 1..(k - 1) :
                       fs[h].Nombre_Campo = fs[k].Nombre_Campo)
        over == SelectSeq(ms, LAMBDA m :
                   /\ i(m) < j(m)
                   /\ fs[i(m)].NroPagina = fs[j(m)].NroPagina
                   /\ intersects(fs[i(m)], fs[j(m)]))
        small == SelectSeq(ks, LAMBDA k :
                   BelowMinSize(fs[k].Cord_width, fs[k].Cord_height,
                                DefaultDpi))
    IN (IF ImageExists(t.Imagen) THEN <<>>
        ELSE << Warning("image not found", <<>>, <<>>) >>)
       \o [k \in 1..Len(dup) |->
              Warning("duplicate", fs[dup[k]].Nombre_Campo, <<>>)]
       \o [m \in 1..Len(over) |->
              Warning("overlap", fs[i(over[m])].Nombre_Campo,
                      fs[j(over[m])].Nombre_Campo)]
       \o [k \in 1..Len(small) |->
              Warning("below minimum size", fs[small[k]].Nombre_Campo, <<>>)]

\* A report that raises when it has a warning to give.
validate_template_check_strict(T, tid) ==
    IF get_template_by_id(T, tid) = NoTemplate
    THEN ValidationError("no template", <<>>)
    ELSE IF Warnings(get_template_by_id(T, tid),
                     repository_get_template_fields(T, tid)) # <<>>
    THEN ValidationError("invalid template", <<>>)
    ELSE SvcRows(<<>>)

\* service.py:655-699
validate_template_check(T, tid) ==
    IF get_template_by_id(T, tid) = NoTemplate
    THEN ValidationError("no template", <<>>)
    ELSE SvcRows(Warnings(get_template_by_id(T, tid),
                          repository_get_template_fields(T, tid)))

\* service.py:641-704
validate_template(p) ==
    /\ spc[p] = "idle"
    /\ \E tid \in TemplateIds :
           LET c == [NoCall EXCEPT !.op = "validate_template", !.tid = tid]
           IN Serve(p, c, SvcPending, validate_template_check(Tables, tid),
                    FALSE, <<>>)

\* Rows of template 1 as its store may hold them, written by several
\* sessions at once or by Field objects of another resolution: two fields of
\* one name that overlap, a field below the floor, and a field on page 1
\* with the name of one on page 0.
StoredRows ==
    (1 :> MkField(1, 1, <<"Q", "1">>, "OMR", RA.x, RA.y, RA.w, RA.h, 0, 1))
    @@ (2 :> MkField(2, 1, <<"Q", "1">>, "OMR", RB.x, RB.y, RB.w, RB.h, 0, 1))
    @@ (3 :> MkField(3, 1, <<"Q", "2">>, "OMR", RD.x, RD.y, RS.w, RS.h, 0, 1))
    @@ (4 :> MkField(4, 1, <<"Q", "2">>, "OMR", RA.x, RA.y, RA.w, RA.h, 1, 1))

\* The stores the report is asked about: no template, or template 1 with
\* its image on disk or gone, and any of the rows above.
StoredTables ==
    {EmptyTables} \cup
    { [t |-> (1 :> MkTemplate(1, <<"A", "1">>, "x1", image, 1)),
       f |-> [k \in ids |-> StoredRows[k]]] :
        image \in {"a.tif", "gone.tif"}, ids \in SUBSET (DOMAIN StoredRows) }

\* The Service starts on a store that holds rows already.
InitReport ==
    /\ InitManager /\ InitSession
    /\ callers = {1} /\ tracing = TRUE
    /\ workload = "none" /\ probe = NoProbe
    /\ \E T \in StoredTables :
         /\ Tbl_Template = T.t
         /\ Tbl_Fields = T.f
         /\ identity = [t |-> MaxOf(DOMAIN T.t), f |-> MaxOf(DOMAIN T.f)]

NextReport ==
    \/ \E p \in Callers : validate_template(p)
    \/ \E p \in Callers : ServiceReturn(p)

SpecReport == InitReport /\ [][NextReport]_vars

\* ------------------------------------------------- concurrent Service calls
\* Several callers share the Service, and with it the one connection and
\* its session: each caller's reads and the steps of its repository
\* transaction interleave with the others'.  The store holds template 1;
\* the callers create and update its fields and delete templates (the
\* workload "race": two fields whose rectangles overlap, and a place apart).
InitRace ==
    /\ InitManager /\ InitSession
    /\ callers = Callers /\ tracing = FALSE
    /\ workload = "race" /\ probe = NoProbe
    /\ Tbl_Template = (1 :> MkTemplate(1, <<"A", "1">>, "x1", "a.tif", 1))
    /\ Tbl_Fields = <<>>
    /\ identity = [t |-> 1, f |-> 0]

RaceCall(p) == create_field(p) \/ update_field(p) \/ delete_template(p)

NextRace ==
    \/ \E p \in Callers : RaceCall(p)
    \/ \E p \in Callers : RepoStep(p)
    \/ \E p \in Callers : ServiceReturn(p)

SpecRace == InitRace /\ [][NextRace]_vars

\* ------------------------------------------------- pixel/inch conversions
\* A float holds the quotient or product of two small integers to within a
\* unit in its last place; here that error is at most one part in
\* FloatScale of a pixel, which is far more than a double loses.
FloatScale == 1000
FloatErrors == {0 - 1, 0, 1}

\* round() that truncates.
RoundDown(n, d) == n \div d

\* Python's round() of the fraction n/d (d > 0): the nearest integer, and
\* the even one of the two when n/d lies halfway.
Round(n, d) ==
    LET q == n \div d
        r == n % d
    IN IF 2 * r < d THEN q
       ELSE IF 2 * r > d THEN q + 1
       ELSE IF q % 2 = 0 THEN q ELSE q + 1

\* The geometry of a Field object in inches, as fractions over den, and the
\* object's _dpi.
Geometry(x, y, w, h, den, dpi) ==
    [x |-> x, y |-> y, w |-> w, h |-> h, den |-> den, dpi |-> dpi]

Sides == {"x", "y", "w", "h"}

\* models.py:152-158, Field.from_pixels: the geometry of the object after
\* from_pixels(x, y, width, height, dpi).
from_pixels(g, x, y, width, height, dpi) ==
    Geometry(x, y, width, height, dpi, dpi)

\* to_pixels() that converts at the object's own _dpi whatever it is given.
to_pixels_own_dpi(g, dpi, err) ==
    [s \in Sides |->
        Round(g[s] * g.dpi * FloatScale + err[s], g.den * FloatScale)]

\* models.py:160-168, Field.to_pixels: dpi = dpi or self._dpi, then
\* round(v * dpi) of each side; err is the error of each float product.
to_pixels(g, dpi, err) ==
    LET d == IF dpi = None THEN g.dpi ELSE dpi
    IN [s \in Sides |->
          Round(g[s] * d * FloatScale + err[s], g.den * FloatScale)]

\* Resolutions given to the conversions, and None for the default argument.
PixelDpis == {72, 150, 300, 600}

\* Offsets and sizes of the fields converted: numerators of inches over
\* DefaultDpi, or pixel values.
Offsets == {0, 7}
Extents == {1, 25, 150}

NoPixels == [s \in Sides |-> 0]

\* A Field object as constructed (models.py:108: _dpi = 300) with its
\* geometry in inches, before any conversion.
FreshField(x, y, w, h) ==
    [step |-> "new", geo |-> Geometry(x, y, w, h, DefaultDpi, DefaultDpi),
     arg |-> None, src |-> NoPixels, px |-> NoPixels]

InitPixels ==
    /\ InitCommon /\ callers = {1} /\ tracing = FALSE
    /\ workload = "none"
    /\ probe \in {FreshField(x, y, w, h) :
                    x \in Offsets, y \in {0}, w \in Extents, h \in Extents}

besideProbe ==
    <<connection, conns, storeUp, callVars, callers, tracing, workload,
      storeVars, svcVars, cacheVars>>

\* field.to_pixels(dpi) is called on a constructed field.
CallToPixels ==
    /\ probe.step = "new"
    /\ \E dpi \in PixelDpis \cup {None}, err \in [Sides -> FloatErrors] :
         probe' = [probe EXCEPT !.step = "to_pixels", !.arg = dpi,
                                !.px = to_pixels(probe.geo, dpi, err)]
    /\ UNCHANGED besideProbe

\* field.from_pixels(x, y, width, height, dpi) is called on a constructed
\* field.
CallFromPixels ==
    /\ probe.step = "new"
    /\ \E x \in Offsets, w \in Extents, h \in Extents, dpi \in PixelDpis :
         probe' = [probe EXCEPT
                     !.step = "from_pixels", !.arg = dpi,
                     !.src = [x |-> x, y |-> 0, w |-> w, h |-> h],
                     !.geo = from_pixels(probe.geo, x, 0, w, h, dpi)]
    /\ UNCHANGED besideProbe

\* field.to_pixels(dpi) is called after from_pixels, at the same dpi: given
\* explicitly, or left to the object's _dpi.
CallToPixelsBack ==
    /\ probe.step = "from_pixels"
    /\ \E dpi \in {probe.arg, None}, err \in [Sides -> FloatErrors] :
         probe' = [probe EXCEPT !.step = "round_trip",
                                !.px = to_pixels(probe.geo, dpi, err)]
    /\ UNCHANGED besideProbe

NextPixels == CallToPixels \/ CallFromPixels \/ CallToPixelsBack

\* The conversions are applied to Field objects.
SpecPixels == InitPixels /\ [][NextPixels]_vars

\* ------------------------------------------------------------- properties
\* The properties below are stated on the recorded history, that is, under
\* Spec and SpecFair (one caller), except where SpecConc is named.

\* Caller p is inside initialize().
InInitialize(p) == pc[p] \in {"init_check", "init_connect", "init_sleep"}

\* The last operation of p was o and it has ended.
Ended(p, o) == pc[p] = "idle" /\ hist[p].op = o /\ result[p] # Pending

\* The positions in the log at which statement s was issued.
Issued(l, s) == {i \in 1..Len(l) : l[i][1] = s}

\* The error of connection.py:58 after the last failed attempt.
ConnectError == DatabaseError(ConnectFailed, DriverError("LoginTimeout"))

\* C1: every transaction() scope issues BEGIN first and ends with exactly
\* one of COMMIT or ROLLBACK: COMMIT and no ROLLBACK when the body exits
\* normally, ROLLBACK and no COMMIT when it raises; no scope sees both and
\* no ROLLBACK is issued for a transaction that never began.
C1_BeginThenExactlyOneEnd ==
    \A p \in callers :
        hist[p].op = "transaction" =>
            LET l == hist[p].log
            IN /\ Len(l) > 0 => l[1][1] = "BEGIN"
               /\ Issued(l, "COMMIT") = {} \/ Issued(l, "ROLLBACK") = {}
               /\ Issued(l, "ROLLBACK") # {} => l[1] = <<"BEGIN", "ok">>
               /\ (pc[p] = "idle" /\ hist[p].yielded) =>
                     /\ Cardinality(Issued(l, "COMMIT")
                                    \cup Issued(l, "ROLLBACK")) = 1
                     /\ Issued(l, "COMMIT") # {}
                            <=> hist[p].bodyExc = NoExc

\* C2 as stated: whenever the body of a transaction() scope raised, a
\* ROLLBACK was issued and the caller receives the transaction error
\* wrapping the body's exception, whatever the kind of failure.
C2_AlwaysTransactionError ==
    \A p \in callers :
        (Ended(p, "transaction") /\ hist[p].bodyExc # NoExc) =>
            /\ Issued(hist[p].log, "ROLLBACK") # {}
            /\ result[p] = DatabaseError(TransactionFailed, hist[p].bodyExc)

\* C2 amended: whenever the body of a transaction() scope raised, exactly
\* one ROLLBACK was issued, after the BEGIN, before the error reaches the
\* caller; the caller receives the transaction error wrapping the body's
\* exception when that ROLLBACK succeeded, and otherwise what get_cursor()
\* makes of the ROLLBACK's own driver error: the retry error (or the
\* connect error, if reconnecting failed) when it is connection-class, the
\* query error wrapping it when it is not.
C2_RollbackThenError ==
    \A p \in callers :
        (Ended(p, "transaction") /\ hist[p].bodyExc # NoExc) =>
            LET l == hist[p].log
            IN /\ Len(l) = 2
               /\ l[1] = <<"BEGIN", "ok">>
               /\ l[2][1] = "ROLLBACK"
               /\ IF l[2][2] = "ok"
                  THEN result[p] = DatabaseError(TransactionFailed,
                                                 hist[p].bodyExc)
                  ELSE IF is_connection_error(l[2][2])
                  THEN result[p] \in
                         {DatabaseError(RetryAgain, DriverError(l[2][2])),
                          ConnectError}
                  ELSE result[p] = DatabaseError(QueryFailed,
                                                 DriverError(l[2][2]))

\* The body raised a connection-class driver error, the ROLLBACK failed on
\* the lost link, and the caller got the retry error.
C2_Witness ==
    \E p \in callers :
        /\ Ended(p, "transaction")
        /\ hist[p].bodyExc = DriverError("LinkFailure")
        /\ hist[p].log = << <<"BEGIN", "ok">>, <<"ROLLBACK", "LinkFailure">> >>
        /\ result[p] = DatabaseError(RetryAgain, DriverError("LinkFailure"))

\* The counters of the current or last initialize() of p.
C3_Counters(p) ==
    LET h == hist[p]
    IN /\ h.connects <= max_retries
       /\ h.slept = retry_delay * h.sleeps
       /\ InInitialize(p) =>
             /\ attempt[p] = h.sleeps
             /\ pc[p] = "init_sleep" => h.connects = h.sleeps + 1
             /\ pc[p] # "init_sleep" => h.connects = h.sleeps
       /\ (~InInitialize(p) /\ h.inits # {}) =>
             IF result[p] = ConnectError
             THEN h.connects = max_retries /\ h.sleeps = max_retries - 1
             ELSE h.connects = h.sleeps + 1

\* C3: initialize() makes at most max_retries attempts, returns at the
\* first successful one, sleeps retry_delay between consecutive attempts
\* and never after the last, raises the connect error only after the third
\* consecutive failure, and always terminates.
C3_BoundedRetriesAndTermination ==
    /\ [](\A p \in callers : C3_Counters(p))
    /\ \A p \in Callers : InInitialize(p) ~> ~InInitialize(p)

\* initialize() gave up after three attempts and two sleeps.
C3_Witness ==
    \E p \in callers :
        /\ Ended(p, "initialize")
        /\ result[p] = ConnectError
        /\ hist[p].connects = 3
        /\ hist[p].sleeps = 2
        /\ hist[p].slept = 4

\* C4: a cursor yielded by get_cursor() has been closed exactly once when
\* its scope is left, however the body ended, and no cursor is open
\* outside a scope.
C4_CursorClosedExactlyOnce ==
    \A p \in callers :
        /\ hist[p].closes <= 1
        /\ pc[p] = "idle" =>
              /\ ~cursor[p].open
              /\ hist[p].yielded => hist[p].closes = 1

\* A scope whose body raised a driver error was left, its cursor closed.
C4_Witness ==
    \E p \in callers :
        /\ Ended(p, "get_cursor")
        /\ hist[p].yielded
        /\ hist[p].bodyExc = DriverError("InvalidObject")
        /\ hist[p].closes = 1
        /\ ~cursor[p].open

\* C5: a driver error raised by the body of a get_cursor() scope surfaces
\* as a connection error (the retry error, or the connect error when the
\* reconnection failed) if and only if its message contains one of the
\* five substrings, and as the query error wrapping it otherwise; the
\* connection is re-initialized in the first case only and is the scope's
\* connection, still open, in the second.
C5_ClassificationBySubstring ==
    \A p \in callers :
        (Ended(p, "get_cursor") /\ hist[p].bodyExc.type = "pyodbc.Error") =>
            LET m == hist[p].bodyExc.msg
                listed == \E k \in 1..5 :
                             Contains(DriverText(m), connection_errors[k])
            IN /\ Len(connection_errors) = 5
               /\ listed =>
                     /\ result[p] \in
                           {DatabaseError(RetryAgain, hist[p].bodyExc),
                            ConnectError}
                     /\ "reconnect" \in hist[p].inits
               /\ ~listed =>
                     /\ result[p] = DatabaseError(QueryFailed,
                                                  hist[p].bodyExc)
                     /\ "reconnect" \notin hist[p].inits
                     /\ connection = hist[p].scopeConn
                     /\ conns[connection].state = "open"

\* A link failure inside a get_cursor() scope surfaced as the retry error
\* after a re-initialization.
C5_Witness ==
    \E p \in callers :
        /\ Ended(p, "get_cursor")
        /\ hist[p].bodyExc = DriverError("LinkFailure")
        /\ result[p] = DatabaseError(RetryAgain, DriverError("LinkFailure"))
        /\ "reconnect" \in hist[p].inits

\* C6 as stated: whenever get_cursor() or transaction() ends with an
\* error after a connection-class failure, the manager holds an open
\* connection.
C6_AlwaysReconnected ==
    \A p \in callers :
        ( /\ pc[p] = "idle"
          /\ hist[p].op \in {"get_cursor", "transaction"}
          /\ "reconnect" \in hist[p].inits
          /\ result[p].type = "DatabaseError" ) =>
            /\ connection # None
            /\ conns[connection].state = "open"

\* The step in which the operation of p ends.
Ends(p) == pc[p] # "idle" /\ pc'[p] = "idle"

\* C6 amended: at the moment get_cursor() or transaction() raises the
\* retry error, the manager holds a connection opened by the
\* re-initialization just made, open, live and without a transaction; when
\* that re-initialization failed three times the connect error is raised
\* instead and the manager holds no connection.
C6_RetryErrorMeansReconnected ==
    [][\A p \in callers :
          (Ends(p) /\ hist'[p].op \in {"get_cursor", "transaction"}) =>
             /\ result'[p].msg = RetryAgain =>
                   /\ connection' # None
                   /\ connection' # connection
                   /\ conns'[connection'] = OpenConn
                   /\ "reconnect" \in hist'[p].inits
                   /\ hist'[p].connects >= 1
             /\ (result'[p] = ConnectError
                   /\ "reconnect" \in hist'[p].inits) =>
                   /\ connection' = None
                   /\ hist'[p].connects = max_retries]_vars

\* The retry error reached the caller of a transaction() and the manager
\* holds a live connection other than the scope's.
C6_Witness ==
    \E p \in callers :
        /\ Ended(p, "transaction")
        /\ result[p].msg = RetryAgain
        /\ connection # None
        /\ connection # hist[p].scopeConn
        /\ conns[connection] = OpenConn

\* C7: at most one transaction is open on a connection at any time, also
\* with several callers: no BEGIN is issued on a connection on which a
\* transaction has begun and has neither committed nor rolled back.
C7_AtMostOneOpenTransaction ==
    \A c \in ConnIds : conns[c].tran <= 1

\* C8: the only open connection is the one the manager holds (so there is
\* never more than one), and no initialize() replaced an open connection
\* without closing it first.
C8_OneOpenConnection ==
    /\ \A c \in ConnIds : conns[c].state = "open" => c = connection
    /\ Cardinality({c \in ConnIds : conns[c].state = "open"}) <= 1
    /\ \A p \in callers : ~hist[p].dropped

\* initialize() was called while a connection was open and succeeded: the
\* manager holds another connection and the former one is no longer open.
C8_Witness ==
    \E p \in callers :
        /\ Ended(p, "initialize")
        /\ result[p] = Returned
        /\ hist[p].entryLive
        /\ connection # None
        /\ connection # hist[p].entryConn
        /\ conns[connection].state = "open"
        /\ conns[hist[p].entryConn].state # "open"

\* C9, after close(): the manager holds no connection and close() raised
\* nothing, also when the driver's close failed; an initialize() that
\* returns afterwards, or a scope that yields a cursor afterwards, has
\* established an open connection.
C9_AfterClose ==
    \A p \in callers :
        /\ (pc[p] = "idle" /\ hist[p].op = "close") =>
              /\ connection = None
              /\ result[p] = Returned
        /\ (Ended(p, "initialize") /\ result[p] = Returned) =>
              /\ connection # None
              /\ conns[connection].state = "open"
        /\ (hist[p].entryConn = None /\ hist[p].yielded) =>
              /\ "lazy" \in hist[p].inits
              /\ hist[p].scopeConn # None

\* C9: close() is idempotent (a close() with no connection changes neither
\* the manager nor the driver), raises nothing, leaves no connection, and
\* initialize() or get_cursor() afterwards establish a new connection.
C9_CloseIdempotent ==
    /\ []C9_AfterClose
    /\ [][\A p \in callers :
            (close(p) /\ connection = None) =>
                /\ connection' = None
                /\ conns' = conns
                /\ result'[p] = Returned]_vars

\* close() was called on a connection whose link was lost: the driver's
\* close raised, the caller saw nothing, and the connection is gone.
C9_Witness ==
    \E p \in callers :
        /\ Ended(p, "close")
        /\ hist[p].closeRaised
        /\ hist[p].entryLive
        /\ result[p] = Returned
        /\ connection = None

\* C10: a scope entered while the manager has no open connection calls
\* initialize() before it creates the cursor, and cursor() never runs on
\* an absent or closed connection.
C10_InitializeBeforeCursor ==
    \A p \in callers :
        /\ hist[p].cursorOn \in {"none", "open"}
        /\ ( /\ hist[p].op \in {"get_cursor", "transaction"}
             /\ ~hist[p].entryLive ) =>
              "lazy" \in hist[p].inits
        /\ cursor[p].open => hist[p].cursorOn = "open"

\* A scope entered with no connection got its cursor on the connection
\* that the lazy initialize() opened.
C10_Witness ==
    \E p \in callers :
        /\ hist[p].op = "get_cursor"
        /\ ~hist[p].entryLive
        /\ "lazy" \in hist[p].inits
        /\ hist[p].yielded
        /\ hist[p].cursorOn = "open"
        /\ cursor[p].open
        /\ cursor[p].conn = connection

\* =========================================================================
\* Claims about TemplateRepository and TemplateService.
\* =========================================================================

\* Caller p's Service operation o has ended.
SvcEnded(p, o) == spc[p] = "done" /\ call[p].op = o

\* Caller p's Service operation o has ended and returned a value.
SvcSucceeded(p, o) == SvcEnded(p, o) /\ sres[p].kind = "return"

\* Caller p's Service operation o has ended with an exception.
SvcFailed(p, o) == SvcEnded(p, o) /\ sres[p].kind # "return"

\* Caller p is inside the repository's transaction of operation o.
InWrite(p, o) == call[p].op = o /\ spc[p] \in {"execute", "commit"}

\* The rows of the fields table f that belong to template tid.
RowsOf(f, tid) == {f[i] : i \in {j \in DOMAIN f : f[j].ID_Template = tid}}

\* The rows of the fields table f that belong to other templates than tid.
RowsNotOf(f, tid) ==
    {f[i] : i \in {j \in DOMAIN f : f[j].ID_Template # tid}}

\* C11: delete_template(id) is an atomic cascade.  Its statements run inside
\* one transaction, so nothing of it is committed while it runs; after a
\* successful call neither the template nor a field with that template id
\* remains; after a failed call the template and all its fields are what
\* they were before the call; the fields of other templates are never
\* touched.
C11_DeleteTemplateAtomicCascade ==
    \A p \in callers :
        LET tid == call[p].tid
        IN /\ InWrite(p, "delete_template") =>
                /\ trancount = 1
                /\ Committed = pre[p]
           /\ SvcSucceeded(p, "delete_template") =>
                /\ tid \notin DOMAIN Tbl_Template
                /\ RowsOf(Tbl_Fields, tid) = {}
                /\ Committed = Tables
           /\ SvcFailed(p, "delete_template") => Tables = pre[p]
           /\ call[p].op = "delete_template" =>
                RowsNotOf(Tbl_Fields, tid) = RowsNotOf(pre[p].f, tid)

\* A delete_template that succeeded on a template with a field, next to
\* another template with a field of its own.
C11_Witness ==
    \E p \in callers :
        /\ SvcSucceeded(p, "delete_template")
        /\ sres[p].value = 1
        /\ RowsOf(pre[p].f, call[p].tid) # {}
        /\ RowsNotOf(pre[p].f, call[p].tid) # {}
        /\ RowsOf(Tbl_Fields, call[p].tid) = {}

\* C12: after Service.delete_template(id) has succeeded, a Service listing of
\* that template's fields, get_template_fields(id), returns an empty list
\* (whenever the store answers its reads).
C12_ListAfterDeleteIsEmpty ==
    \A p \in callers :
        ( /\ SvcEnded(p, "get_template_fields")
          /\ call[p].tid \in deleted
          /\ sres[p].kind # "DatabaseError" ) =>
            /\ sres[p].kind = "return"
            /\ sres[p].rows = <<>>

\* Rows f and g agree in name, type, geometry, page and rectangle id.
SameField(f, g) ==
    [f EXCEPT !.ID = 0, !.ID_Template = 0]
        = [g EXCEPT !.ID = 0, !.ID_Template = 0]

\* In tables V every field that template src has in tables P has a copy
\* under template n.
HasAllCopies(V, P, src, n) ==
    \A f \in RowsOf(P.f, src) :
        \E g \in RowsOf(V.f, n) : SameField(f, g)

\* The template rows of tables V that tables P do not have.
NewTemplates(V, P) == (DOMAIN V.t) \ (DOMAIN P.t)

\* C13: duplicate_template(id, new_name) is all-or-nothing.  Neither in what
\* is committed while it runs (what any other operation can observe), nor
\* in the tables it leaves behind when it ends, does the new template row
\* exist without the copies of all the source's fields; after a failure at
\* any step the tables are what they were before the call.
C13_DuplicateAllOrNothing ==
    \A p \in callers :
        call[p].op = "duplicate_template" =>
            /\ \A n \in NewTemplates(Committed, pre[p]) :
                   HasAllCopies(Committed, pre[p], call[p].tid, n)
            /\ spc[p] = "done" =>
                   \A n \in NewTemplates(Tables, pre[p]) :
                       HasAllCopies(Tables, pre[p], call[p].tid, n)
            /\ SvcFailed(p, "duplicate_template") => Tables = pre[p]
            /\ InWrite(p, "duplicate_template") => trancount = 1

\* Inside the transaction of a duplicate_template the session has the new
\* template row and not yet the copy of the source's field, and nothing of
\* it is committed.
C13_Witness ==
    \E p \in callers :
        /\ InWrite(p, "duplicate_template")
        /\ NewTemplates(Tables, pre[p]) # {}
        /\ RowsOf(pre[p].f, call[p].tid) # {}
        /\ \E n \in NewTemplates(Tables, pre[p]) :
               ~HasAllCopies(Tables, pre[p], call[p].tid, n)
        /\ Committed = pre[p]

\* The fields of template src in tables P and those of template n in
\* tables V correspond one to one.
OneToOne(V, P, src, n) ==
    LET from == {i \in DOMAIN P.f : P.f[i].ID_Template = src}
        to == {j \in DOMAIN V.f : V.f[j].ID_Template = n}
    IN \E m \in [from -> to] :
          /\ \A i, k \in from : m[i] = m[k] => i = k
          /\ \A j \in to : \E i \in from : m[i] = j
          /\ \A i \in from : SameField(P.f[i], V.f[m[i]])

\* What a successful duplicate_template of caller p gives, but for the new
\* template's name: an id different from the source's that refers to a new
\* template with the source's Imagen, Xmp and ID_Grado, whose fields
\* correspond one to one to the source's; the source and its fields are
\* unchanged.
FaithfulCopy(p) ==
    LET src == call[p].tid
        n == sres[p].value
    IN /\ n # src
       /\ n \in NewTemplates(Tables, pre[p])
       /\ Tbl_Template[n].Imagen = pre[p].t[src].Imagen
       /\ Tbl_Template[n].Xmp = pre[p].t[src].Xmp
       /\ Tbl_Template[n].ID_Grado = pre[p].t[src].ID_Grado
       /\ OneToOne(Tables, pre[p], src, n)
       /\ Tbl_Template[src] = pre[p].t[src]
       /\ RowsOf(Tbl_Fields, src) = RowsOf(pre[p].f, src)

\* The characters of name s without the blanks at its ends.
Trimmed(s) ==
    LET inner == {i \in 1..Len(s) : s[i] # " "}
    IN IF inner = {} THEN <<>>
       ELSE LET lo == CHOOSE i \in inner : \A j \in inner : i <= j
                hi == CHOOSE i \in inner : \A j \in inner : j <= i
            IN [k \in 1..(hi - lo + 1) |-> s[lo + k - 1]]

\* C14 as amended: a successful duplicate_template(id, new_name) returns an
\* id different from id that refers to a template named new_name without
\* its leading and trailing blanks, with the source's ImagePath, Xmp and
\* GradeId, whose fields correspond one to one to the source's fields with
\* identical name, type, geometry and page; the source template and its
\* fields are unchanged.
C14_DuplicateFaithfulCopy ==
    \A p \in callers :
        SvcSucceeded(p, "duplicate_template") =>
            /\ FaithfulCopy(p)
            /\ Tbl_Template[sres[p].value].Nombre = Trimmed(call[p].name)

\* A successful duplicate_template under a name given with a leading blank,
\* of a template that has a field.
C14_Witness ==
    \E p \in callers :
        /\ SvcSucceeded(p, "duplicate_template")
        /\ call[p].name # Trimmed(call[p].name)
        /\ RowsOf(pre[p].f, call[p].tid) # {}
        /\ RowsOf(Tbl_Fields, sres[p].value) # {}

\* C14 as stated: the template that a successful duplicate_template(id,
\* new_name) returns is named new_name.
C14_CopyNamedAsGiven ==
    \A p \in callers :
        SvcSucceeded(p, "duplicate_template") =>
            /\ FaithfulCopy(p)
            /\ Tbl_Template[sres[p].value].Nombre = call[p].name

\* The rectangles of rows f and g have a point in common: they overlap, or
\* they touch at an edge or a corner.
RectsMeet(f, g) ==
    /\ f.Cord_x <= g.Cord_x + g.Cord_width
    /\ g.Cord_x <= f.Cord_x + f.Cord_width
    /\ f.Cord_y <= g.Cord_y + g.Cord_height
    /\ g.Cord_y <= f.Cord_y + f.Cord_height

\* The rectangles of rows f and g overlap: they share more than an edge.
RectsOverlap(f, g) ==
    /\ f.Cord_x < g.Cord_x + g.Cord_width
    /\ g.Cord_x < f.Cord_x + f.Cord_width
    /\ f.Cord_y < g.Cord_y + g.Cord_height
    /\ g.Cord_y < f.Cord_y + f.Cord_height

\* The rectangles of rows f and g touch at an edge and do not overlap.
RectsTouch(f, g) == RectsMeet(f, g) /\ ~RectsOverlap(f, g)

\* Rows f and g are of the same template and page.
SamePage(f, g) ==
    f.ID_Template = g.ID_Template /\ f.NroPagina = g.NroPagina

\* No two rows of the fields table f on the same page of the same template
\* have rectangles with a point in common.
ConflictFree(f) ==
    \A i, j \in DOMAIN f :
        (i # j /\ SamePage(f[i], f[j])) => ~RectsMeet(f[i], f[j])

\* C15: after any sequence of Service operations executed one at a time, no
\* two distinct stored fields of the same template on the same page have
\* conflicting rectangles: neither in the session's tables nor in what is
\* committed do two such rectangles overlap, or as much as touch.
C15_NoConflictingFields ==
    ConflictFree(Tbl_Fields) /\ ConflictFree(Committed.f)

\* Two fields are stored on the same page of a template, after a move or a
\* resize of one of them that the Service accepted.
C15_Witness ==
    \E p \in callers :
        /\ \/ SvcSucceeded(p, "move_field")
           \/ SvcSucceeded(p, "resize_field")
        /\ sres[p].value = 1
        /\ Tables # pre[p]
        /\ \E i, j \in DOMAIN Tbl_Fields :
               i # j /\ SamePage(Tbl_Fields[i], Tbl_Fields[j])

\* The fields stored in tables P on the page of field f whose rectangles
\* have a point in common with f's.
Rivals(P, f) ==
    {g \in RowsOf(P.f, f.ID_Template) :
        g.NroPagina = f.NroPagina /\ RectsMeet(f, g)}

\* The fields stored in tables P on the page of field f whose rectangles
\* overlap f's.
OverlappedBy(P, f) ==
    {g \in RowsOf(P.f, f.ID_Template) :
        g.NroPagina = f.NroPagina /\ RectsOverlap(f, g)}

\* Field f is at least 20 pixels wide and high at resolution dpi (the unit
\* of the coordinates is the pixel of the default resolution).
BigEnough(f, dpi) ==
    /\ f.Cord_width * dpi >= MinFieldPx * DefaultDpi
    /\ f.Cord_height * dpi >= MinFieldPx * DefaultDpi

\* Caller p's create_field(f) has ended, and not with an error of the store.
Created(p) ==
    SvcEnded(p, "create_field") /\ sres[p].kind # "DatabaseError"

C17_TouchingFieldsAccepted ==
    \A p \in callers :
        LET f == call[p].field
        IN ( /\ Created(p)
             /\ f.ID_Template \in DOMAIN pre[p].t
             /\ BigEnough(f, call[p].a)
             /\ OverlappedBy(pre[p], f) = {} ) =>
               /\ \A g \in Rivals(pre[p], f) : ~intersects(f, g)
               /\ sres[p].kind = "return"

\* C18: intersects is symmetric: for all fields a and b, intersects(a, b)
\* equals intersects(b, a).
C18_IntersectsSymmetric ==
    probe.called => (probe.ab = probe.ba)

\* intersects() was called on two different fields of a page that touch
\* at an edge, and gave true both ways.
C18_Witness ==
    /\ probe.called
    /\ probe.a # probe.b
    /\ probe.a.NroPagina = probe.b.NroPagina
    /\ RectsTouch(probe.a, probe.b)
    /\ probe.ab /\ probe.ba

\* C19: after any sequence of Service create_template, update_template,
\* duplicate_template and delete_template calls executed one at a time, no
\* two stored (committed) templates have the same Name.
C19_TemplateNamesUnique ==
    \A i, j \in DOMAIN Committed.t :
        i # j => Committed.t[i].Nombre # Committed.t[j].Nombre

\* C20: after any sequence of Service field operations executed one at a
\* time, no two stored (committed) fields of the same template have the
\* same Name.
C20_FieldNamesUnique ==
    \A i, j \in DOMAIN Committed.f :
        (i # j /\ Committed.f[i].ID_Template = Committed.f[j].ID_Template)
            => Committed.f[i].Nombre_Campo # Committed.f[j].Nombre_Campo

\* =========================================================================
\* Claims about validation, error kinds, the cache and the integrity report.
\* =========================================================================

\* The Service operations that write.
WriteOps ==
    {"create_template", "update_template", "delete_template", "create_field",
     "update_field", "delete_field", "move_field", "resize_field",
     "rename_field", "change_field_type", "duplicate_template"}

\* C22: a Service write operation that fails with ValidationError has written
\* nothing: it never reached the store's BEGIN, and the stored templates and
\* fields, the session's and the committed ones, are exactly what they were
\* before the call.
C22_ValidationErrorWritesNothing ==
    \A p \in callers :
        ( /\ spc[p] = "done"
          /\ call[p].op \in WriteOps
          /\ sres[p].kind = "ValidationError" )
        => /\ ~began[p]
           /\ Tables = pre[p]
           /\ Committed = pre[p]

\* A create_field rejected for an overlap on a template that has a field:
\* the field is still the only one.
C22_Witness ==
    \E p \in callers :
        /\ SvcEnded(p, "create_field")
        /\ sres[p].kind = "ValidationError"
        /\ sres[p].text = "overlap"
        /\ pre[p].f # <<>>
        /\ Tbl_Fields = pre[p].f

\* Every row of the fields table f belongs to a row of the templates table t.
Owned(T) == \A i \in DOMAIN T.f : T.f[i].ID_Template \in DOMAIN T.t

\* C26: with Service operations executed one at a time, every stored field's
\* ID_Template is the ID of a stored template, in the session's tables and in
\* the committed ones, at every step; a create_field or update_field that
\* succeeded was for a template that existed, and a delete_template that
\* succeeded left none of the template's fields behind.
C26_NoOrphanFields ==
    /\ Owned(Tables)
    /\ Owned(Committed)
    /\ \A p \in callers :
         /\ ( /\ SvcSucceeded(p, "create_field") \/ SvcSucceeded(p, "update_field")
              /\ sres[p].value > 0 )
            => call[p].tid \in DOMAIN pre[p].t
         /\ SvcSucceeded(p, "delete_template")
            => RowsOf(Tbl_Fields, call[p].tid) = {}

\* A delete_template that removed a template with its field while a field
\* of another template stays, owned.
C26_Witness ==
    \E p \in callers :
        /\ SvcSucceeded(p, "delete_template")
        /\ RowsOf(pre[p].f, call[p].tid) # {}
        /\ Tbl_Fields # <<>>
        /\ call[p].tid \notin DOMAIN Tbl_Template
        /\ Owned(Tables)

\* The operations that name a template, and those that name a field.
OnTemplate == {"update_template", "delete_template", "duplicate_template"}
OnField ==
    {"update_field", "delete_field", "move_field", "resize_field",
     "rename_field", "change_field_type"}

\* Caller p's operation names a template or a field that was not stored
\* when it began.
Missing(p) ==
    \/ call[p].op \in OnTemplate /\ call[p].tid \notin DOMAIN pre[p].t
    \/ call[p].op \in OnField /\ call[p].fid \notin DOMAIN pre[p].f

\* C29: a Service operation that names a template ID or a field ID that does
\* not exist fails, whenever the store answers its reads, with the not-found
\* kind of error, which is not the validation kind, and leaves the store
\* unchanged.
C29_MissingIdIsNotFound ==
    \A p \in callers :
        ( /\ spc[p] = "done"
          /\ Missing(p)
          /\ sres[p].kind # "DatabaseError" )
        => /\ sres[p].kind = "NotFoundError"
           /\ Tables = pre[p]

\* update_field lets field f, built from its row, through to the
\* repository's UPDATE on tables T.
UpdateFieldAccepts(T, f) ==
    /\ update_field_check(T, f, DefaultDpi).kind = "pending"
    /\ field_validate(f) = ""

\* C23: each of move_field, resize_field, rename_field and change_field_type
\* accepts its request exactly when update_field accepts the stored field
\* with that one change (whenever the outcome tells: the reads were
\* answered), and a request that succeeded leaves the store as that update
\* does.
C23_SameAsUpdateField ==
    \A p \in callers :
        ( /\ spc[p] = "done"
          /\ call[p].op \in {"move_field", "resize_field", "rename_field",
                             "change_field_type"}
          /\ sres[p].kind # "DatabaseError" \/ began[p] )
        => /\ began[p] <=> UpdateFieldAccepts(pre[p], call[p].field)
           /\ sres[p].kind = "return" =>
                Tables = TablesAfter(Stmt("UPDATE Tbl_Fields", call[p]),
                                     pre[p], identity, 0)

\* The characters of the names used here that are uppercase letters, digits
\* or the underscore.
NameChars == {"A", "Q", "1", "2", "_"}

\* A name that is not empty, at most 100 characters long and made of
\* uppercase letters, digits and underscores only.
WellFormedName(n) ==
    /\ n # <<>>
    /\ Len(n) <= MaxNameLen
    /\ \A k \in 1..Len(n) : n[k] \in NameChars

\* C21: every field stored through create_field, update_field or rename_field
\* has a well-formed name, and a request of these operations whose field has
\* any other name is rejected with ValidationError and stores nothing
\* (whenever the store answers the reads).
C21_StoredNamesWellFormed ==
    /\ \A i \in DOMAIN Committed.f :
           WellFormedName(Committed.f[i].Nombre_Campo)
    /\ \A p \in callers :
         ( /\ spc[p] = "done"
           /\ call[p].op \in {"create_field", "update_field", "rename_field"}
           /\ ~WellFormedName(call[p].field.Nombre_Campo)
           /\ sres[p].text # "read" )
         => /\ sres[p].kind = "ValidationError"
            /\ Tables = pre[p]

\* The resolution of the image of the template that owns field f in
\* tables T (models.py:78-83, Template.dpi).
TemplateDpi(T, f) == get_image_dpi(T.t[f.ID_Template].Imagen)

\* C27: create_field, update_field and resize_field, once they reach the size
\* check (the template and the field exist, the type is valid, the reads are
\* answered), raise the minimum-size ValidationError exactly for the fields
\* narrower or lower than 20 pixels at the resolution of the owning
\* template's image.
C27_FloorAtTemplateDpi ==
    \A p \in callers :
        LET f == call[p].field
        IN ( /\ spc[p] = "done"
             /\ call[p].op \in {"create_field", "update_field", "resize_field"}
             /\ f.ID_Template \in DOMAIN pre[p].t
             /\ call[p].op # "create_field" => call[p].fid \in DOMAIN pre[p].f
             /\ f.Tipo_Campo \in RegionType
             /\ sres[p].kind # "DatabaseError" \/ began[p] )
           => ( sres[p].text = "below minimum size"
                  <=> ~BigEnough(f, TemplateDpi(pre[p], f)) )

\* C28: create_template(t) for a template t that is not valid (empty Nombre,
\* empty Imagen, or ID_Grado <= 0) fails with ValidationError (whenever the
\* store answers the reads) and creates no template row.
C28_InvalidTemplateIsValidationError ==
    \A p \in callers :
        ( /\ SvcEnded(p, "create_template")
          /\ template_validate(call[p].template) # ""
          /\ sres[p].text # "read" )
        => /\ sres[p].kind = "ValidationError"
           /\ Tbl_Template = pre[p].t

\* The entry set last for key k, not deleted or cleared since, is not older
\* than the time-to-live.
Live(k) == k \in DOMAIN sets /\ clock - sets[k].stamp <= timeout_seconds

\* C25: Cache.get(key) returns the value most recently set for key exactly
\* when that entry has not been deleted or cleared since and its age does not
\* exceed the time-to-live, and None otherwise; an expired entry is gone after
\* the get that found it; and every entry the cache holds carries the value
\* and the time of its own last set, whatever was written to other keys.
C25_GetReturnsLiveEntry ==
    /\ got.called =>
         /\ got.value = IF Live(got.key) THEN sets[got.key].value ELSE None
         /\ ~Live(got.key) => got.key \notin DOMAIN cache
    /\ \A k \in DOMAIN cache : k \in DOMAIN sets /\ cache[k] = sets[k]

\* A get returned a value whose age is exactly the time-to-live, while the
\* other key's last set is a later one.
C25_Witness ==
    /\ got.called
    /\ got.value # None
    /\ clock - sets[got.key].stamp = timeout_seconds
    /\ \E k \in DOMAIN sets \ {got.key} : sets[k].stamp > sets[got.key].stamp

\* C24: every Service write operation that succeeds leaves the whole cache
\* empty when it returns.
C24_WriteLeavesCacheEmpty ==
    \A p \in callers :
        ( /\ spc[p] = "done"
          /\ call[p].op \in WriteOps
          /\ sres[p].kind = "return" )
        => cache = <<>>

OthersOverlappedBy(P, f) == {g \in OverlappedBy(P, f) : g.ID # f.ID}

\* C38: update_field excludes the field itself from the overlap check: an
\* update of a stored field (valid, of 20 pixels or more, keeping its
\* template) whose new rectangle overlaps no field other than the one being
\* updated succeeds, and re-submitting a stored field unchanged succeeds and
\* leaves the store exactly as it was (whenever the store does not fail).
C38_UpdateExcludesItself ==
    \A p \in callers :
        LET f == call[p].field
        IN ( /\ SvcEnded(p, "update_field")
             /\ sres[p].kind # "DatabaseError"
             /\ f.ID \in DOMAIN pre[p].f
             /\ f.ID_Template \in DOMAIN pre[p].t
             /\ pre[p].f[f.ID].ID_Template = f.ID_Template
             /\ field_validate(f) = ""
             /\ BigEnough(f, call[p].a)
             /\ OthersOverlappedBy(pre[p], f) = {} )
           => /\ sres[p].kind = "return"
              /\ f = pre[p].f[f.ID] => Tables = pre[p]

\* The rows of table R other than row i are the rows of table S other than
\* its row i.
SameButRow(R, S, i) ==
    /\ DOMAIN R = DOMAIN S
    /\ \A j \in DOMAIN R \ {i} : R[j] = S[j]

\* C40: update_field never moves a field to another template: a request
\* for a stored field that carries another TemplateId changes no row and
\* returns false, and every successful update leaves the field's TemplateId,
\* all other fields and the templates unchanged; whatever the outcome, every
\* field that is still stored has the TemplateId it had before the call.
C40_UpdateKeepsTemplate ==
    \A p \in callers :
        LET f == call[p].field
        IN SvcEnded(p, "update_field") =>
             /\ \A i \in DOMAIN pre[p].f \cap DOMAIN Tbl_Fields :
                    Tbl_Fields[i].ID_Template = pre[p].f[i].ID_Template
             /\ ( /\ sres[p].kind = "return"
                  /\ f.ID \in DOMAIN pre[p].f
                  /\ pre[p].f[f.ID].ID_Template # f.ID_Template )
                => sres[p].value = 0 /\ Tables = pre[p]
             /\ ( sres[p].kind = "return" /\ sres[p].value = 1 )
                => /\ Tbl_Fields[f.ID] = f
                   /\ pre[p].f[f.ID].ID_Template = f.ID_Template
                   /\ SameButRow(Tbl_Fields, pre[p].f, f.ID)
                   /\ Tbl_Template = pre[p].t

\* update_field returned false for a request that passed every check of the
\* Service and named a stored field under another stored template; and
\* elsewhere returned true for an update that changed a row.
C40_Witness ==
    \E p \in callers :
        LET f == call[p].field
        IN /\ SvcSucceeded(p, "update_field")
           /\ began[p]
           /\ f.ID \in DOMAIN pre[p].f
           /\ f.ID_Template \in DOMAIN pre[p].t
           /\ pre[p].f[f.ID].ID_Template # f.ID_Template
           /\ pre[p].f[f.ID] # f
           /\ sres[p].value = 0

\* The resolution a to_pixels(probe.arg) call converts at.
ConvertedAt == IF probe.arg = None THEN probe.geo.dpi ELSE probe.arg

\* Side s of the pixel form, taken back to inches at resolution d, is within
\* one pixel (1/d inch) of side s of geometry g.
WithinOnePixel(g, px, s, d) ==
    LET diff == px[s] * g.den - g[s] * d
    IN diff <= g.den /\ 0 - diff <= g.den

\* C31: for every field with x, y >= 0 and width, height > 0 and every DPI
\* d, to_pixels(d) taken back to inches at the same d reproduces width and
\* height within one pixel (1/d inch); and from_pixels followed by to_pixels
\* at the same d returns the original integer pixel values.
C31_PixelRoundTrip ==
    /\ probe.step = "to_pixels" =>
         /\ WithinOnePixel(probe.geo, probe.px, "w", ConvertedAt)
         /\ WithinOnePixel(probe.geo, probe.px, "h", ConvertedAt)
    /\ probe.step = "round_trip" => probe.px = probe.src

\* Pixels given at 72 dpi, where 25 pixels are no whole number of 1/300
\* inch, were converted to inches and came back as they were given.
C31_Witness ==
    /\ probe.step = "round_trip"
    /\ probe.geo.dpi = 72 /\ probe.src.w = 25 /\ probe.px.w = 25

\* A DatabaseError raised from a connection-class driver error.
FromConnectionError(e) ==
    e.type = "DatabaseError" /\ is_connection_error(e.cause)

\* C37: execute_query makes at most 3 attempts; it retries only after a
\* DatabaseError whose cause is a connection-class error; an error of any
\* other kind reaches the caller from the attempt it arose in, with no
\* retry after it; the call returns the row count of the one statement
\* that succeeded, which is its last attempt; and a call that raises has
\* executed no statement with success: an error with a connection-class
\* cause reaches the caller only from the third attempt.
C37_QueryRetries ==
    \A p \in callers :
        hist[p].op = "execute_query" =>
            LET h == hist[p]
            IN /\ tries[p] < query_retries
               /\ Len(h.caught) < query_retries
               /\ pc[p] # "idle" => Len(h.caught) = tries[p]
               /\ \A k \in 1..Len(h.caught) : FromConnectionError(h.caught[k])
               /\ Len(h.rowcounts) <= 1
               /\ Ended(p, "execute_query") =>
                    /\ result[p].type = "return" =>
                         /\ Len(h.rowcounts) = 1
                         /\ h.returned = h.rowcounts[1]
                    /\ result[p].type # "return" =>
                         /\ h.rowcounts = <<>>
                         /\ FromConnectionError(result[p])
                              => Len(h.caught) = query_retries - 1

\* execute_query returned a row count from its third attempt, after two
\* errors with a connection-class cause.
C37_Witness ==
    \E p \in callers :
        /\ Ended(p, "execute_query")
        /\ result[p].type = "return"
        /\ Len(hist[p].caught) = 2
        /\ hist[p].returned = 1

\* The callers other than p that hold an open cursor on connection object
\* c: inside the with-body of get_cursor() or of transaction(), before the
\* COMMIT and the cursor's close.
OtherHolders(p, c) ==
    {q \in callers \ {p} : cursor[q].open /\ cursor[q].conn = c}

\* Caller p's initialize(), entered from get_cursor(), takes the step
\* that closes the open self.connection, or the step that replaces it.
InitializeDrops(p) ==
    /\ ret[p] \in {"lazy", "reconnect"}
    /\ pc[p] \in {"init_check", "init_connect"}
    /\ pc'[p] # pc[p]
    /\ connection # None
    /\ conns[connection].state = "open"
    /\ connection' # connection \/ conns'[connection].state # "open"

\* C35: with several callers sharing one DatabaseConnection, a connection
\* is never closed or replaced by one caller's initialize() (lazy
\* initialization, or reconnect after a connection-class error) while
\* another caller still holds an open cursor or an uncommitted transaction
\* on it.
C35_InitializeSparesHolders ==
    [][\A p \in callers :
          InitializeDrops(p) => OtherHolders(p, connection) = {}]_vars

\* The writes of the store value of key k that have returned: the wrapped
\* write method ran and cache_invalidator cleared the cache after it.
ReturnedWrites(k) ==
    {n \in 1..backing[k] :
        \A p \in callers :
            ~(task[p].at = "clear" /\ task[p].key = k /\ task[p].result = n)}

\* C33: with a reader and a writer running concurrently through
\* cache_decorator and cache_invalidator, once a write has returned the
\* cache holds no entry whose value was computed from the store before that
\* write: every entry's value is that of the last returned write of its
\* key, or of a later one.
C33_NoStaleEntryAfterWrite ==
    \A k \in DOMAIN cache :
        \A n \in ReturnedWrites(k) : cache[k].value >= n

\* C34: Cache.get is safe against concurrent clear, delete and get on the
\* same cache: under every interleaving it returns None or a value that was
\* set for its key, and it never fails because the entry disappeared
\* between its membership test and its read or between its expiry test and
\* its removal.
C34_GetNeverFails ==
    \A p \in callers :
        (task[p].at = "done" /\ task[p].op \in {"get", "cached"}) =>
            /\ task[p].raised = ""
            /\ task[p].result <= backing[task[p].key]

\* C39: for a method wrapped by cache_decorator, two calls with the same
\* arguments within the time-to-live and with no call that clears or
\* deletes in between invoke the wrapped method exactly once, in the first
\* call, and return the same result, whatever the result: None included.
C39_SecondCallServedFromCache ==
    \A p \in callers :
        LET t == task[p]
        IN ( /\ t.at = "done" /\ t.op = "cached"
             /\ t.prev.key = t.key
             /\ t.prev.invoked = 1
             /\ t.ended - t.prev.ended <= timeout_seconds )
           => /\ t.invoked = 0
              /\ t.raised = ""
              /\ t.result = t.prev.result

\* The row that caller p's create_field is to insert, with identity value n.
NewRow(p, n) == [call[p].field EXCEPT !.ID = n]

\* C32: the Service's overlap and uniqueness checks are read-then-write and
\* not atomic with the write: a create_field checks before its transaction
\* only (once it has begun one it never ends with ValidationError), and its
\* INSERT stores the row whatever another caller stored since the check; so
\* with two concurrent callers there is an interleaving in which two
\* create_field calls for conflicting rectangles on the same template page
\* both pass the check and both succeed, leaving two conflicting fields
\* stored.
C32_CheckNotAtomicWithWrite ==
    /\ [](\A p \in callers :
            (SvcEnded(p, "create_field") /\ began[p])
                => sres[p].kind # "ValidationError")
    /\ [][\A p \in callers :
            ( /\ call[p].op = "create_field"
              /\ spc[p] = "execute" /\ spc'[p] = "commit" )
            => /\ identity.f + 1 \in DOMAIN Tbl_Fields'
               /\ Tbl_Fields'[identity.f + 1] = NewRow(p, identity.f + 1)
               /\ retval'[p] = identity.f + 1]_vars

\* Two create_field calls of two callers have both returned the IDs of their
\* rows, and the two rows, committed, are on one page of one template and
\* their rectangles overlap.
C32_Witness ==
    \E p, q \in callers :
        /\ p # q
        /\ SvcSucceeded(p, "create_field")
        /\ SvcSucceeded(q, "create_field")
        /\ trancount = 0
        /\ sres[p].value # sres[q].value
        /\ {sres[p].value, sres[q].value} \subseteq DOMAIN Tbl_Fields
        /\ Tbl_Fields[sres[p].value] = NewRow(p, sres[p].value)
        /\ Tbl_Fields[sres[q].value] = NewRow(q, sres[q].value)
        /\ SamePage(call[p].field, call[q].field)
        /\ RectsOverlap(call[p].field, call[q].field)

\* No operation of the Service is running.
AllReturned == \A p \in callers : spc[p] \in {"idle", "done"}

\* C36: with Service callers running concurrently, a create_field or
\* update_field for template T interleaved with delete_template(T) never
\* leaves a stored field whose TemplateId refers to the deleted template:
\* once the operations have ended, every committed field belongs to a
\* stored template and none to a deleted one.
C36_NoFieldOfDeletedTemplate ==
    AllReturned =>
        /\ Owned(Committed)
        /\ \A i \in DOMAIN Committed.f :
               Committed.f[i].ID_Template \notin deleted
====
